---- MODULE Spec2Model ----
(***************************************************************************)
(* The user-account store of src/database_sqlite.py (class                 *)
(* DatabaseManager): the users, daily_usage and admins tables, the TTL     *)
(* cache in front of them, and the quota / premium operations.             *)
(*                                                                         *)
(* Every public operation is translated statement by statement into a     *)
(* small step machine over a configuration c = [users, usage, admins,      *)
(* cache, ad_sessions, ad_verifications, now, f], f being the frame        *)
(* (arguments, locals, program counter) of the call.  One step is one      *)
(* access to shared state: one cache get, set or delete, one SELECT, or    *)
(* one critical section (with self.lock: ... commit), which other          *)
(* connections see as a single commit.                                     *)
(*   - Spec runs each call to completion in one action (no concurrency);   *)
(*   - SpecConc interleaves the steps of the calls of several threads.     *)
(* A property of a call is stated over Run: the call run to completion     *)
(* from a reachable state.                                                 *)
(*                                                                         *)
(* A users row holds the columns the modelled operations read or write;    *)
(* the profile columns and the activity timestamps are left out.           *)
(*                                                                         *)
(* Time is in seconds.  A date string '%Y-%m-%d' is modelled by its day    *)
(* number, an isoformat datetime by its second; both are kept apart by a   *)
(* format tag, and parsing a date gives that day's midnight.               *)
(***************************************************************************)
EXTENDS Integers, Sequences, FiniteSets, TLC

\* ------------------------------------------------------------------ bounds
\* Number of 60-second clock ticks explored: enough for a cached user row
\* (USER_TTL) to expire.
MaxTicks == 3
\* Largest count argument of increment_usage / can_download / add_ad_downloads.
MaxCount == 2
\* Number of two-minute steps of the clock in SpecStale.
MaxBanTicks == 3
\* Cap on a stored ad balance (add_ad_downloads is not called beyond it).
MaxAd == 2
\* A storage failure is tried at each of the first MaxFaultAt + 1 SQL steps
\* of a call.
MaxFaultAt == 5
\* Number of half-hour clock ticks explored by SpecSess: enough for a
\* session to pass the age of 60 minutes.
MaxSessTicks == 3

UserIds == {1}
Threads == {1, 2}

SecondsPerDay == 24 * 60 * 60
\* The clock starts one minute before the midnight that ends day 0, so that
\* the day changes, and a one-day premium expires, within the explored ticks.
StartTime == SecondsPerDay - 60

\* ------------------------------------------------------- program constants
USER_TTL == 180
ADMIN_TTL == 300
BANNED_TTL == 300
\* timedelta(minutes=60), in seconds
SessionMaxAge == 60 * 60
\* The literal 1 of "daily_usage + count > 1".
DAILY_LIMIT == 1

\* --------------------------------------------------------------- variables
VARIABLES
    users,    \* users table: user_id -> row (DOMAIN users = the ids with a row)
    usage,    \* daily_usage table: <<user_id, date>> -> files_downloaded
    admins,   \* admins table: user_id -> added_by
    cache,    \* the TTL cache: key -> [val, exp]
    now,      \* the clock, in seconds
    threads,  \* the concurrent specifications: the frame of each thread's call
    ad_sessions,       \* ad_sessions table: session_id -> row
    ad_verifications,  \* ad_verifications table: code -> row
    held      \* the threads inside a `with self.lock:` block

vars == <<users, usage, admins, cache, now, threads,
          ad_sessions, ad_verifications, held>>

\* ------------------------------------------------------------ dates, rows
\* datetime.now().strftime('%Y-%m-%d')
Date(t) == t \div SecondsPerDay

\* SQL NULL / Python None for a text column.
NULL == "NULL"
NoDate == [fmt |-> "null", v |-> 0]
DateStr(d) == [fmt |-> "date", v |-> d]
IsoStr(t) == [fmt |-> "iso", v |-> t]

\* datetime.fromisoformat(s), falling back to strptime(s, '%Y-%m-%d'): the
\* second a stored subscription_end denotes (a date denotes its midnight).
ParseDateTime(s) == IF s.fmt = "date" THEN s.v * SecondsPerDay ELSE s.v

\* The row add_user inserts; the columns it does not name take the schema's
\* defaults.
NewRow(user_type, t) ==
    [ user_type |-> user_type,
      subscription_end |-> NoDate,
      premium_source |-> NULL,
      is_banned |-> FALSE,
      session_string |-> NULL,
      custom_thumbnail |-> NULL,
      ad_downloads |-> 0,
      ad_downloads_reset_date |-> Date(t),
      shortener_index |-> 0 ]

\* Optional values: <<>> is None, <<x>> is x.
None == <<>>
Some(x) == <<x>>

\* ------------------------------------------------------------------- cache
UserKey(u) == <<"user", u>>
AdminKey(u) == <<"admin", u>>
BannedKey(u) == <<"banned", u>>

\* get(key): the value, or a miss once the entry is absent or has expired.
CacheGet(ch, t, key) ==
    IF key \in DOMAIN ch /\ t < ch[key].exp THEN Some(ch[key].val) ELSE None

\* set(key, value, ttl): expiry is measured from the insertion.
CacheSet(ch, t, key, val, ttl) ==
    [k \in DOMAIN ch \cup {key} |->
        IF k = key THEN [val |-> val, exp |-> t + ttl] ELSE ch[k]]

CacheDelete(ch, key) == [k \in DOMAIN ch \ {key} |-> ch[k]]

\* An expired entry can never be returned again: time passing drops it.
CachePurge(ch, t) == [k \in {x \in DOMAIN ch : t < ch[x].exp} |-> ch[k]]

\* ------------------------------------------------------------------ frames
\* The frame of a call: its arguments, its locals and where it stands.
Frame(op, u) ==
    [ op |-> op, u |-> u, count |-> 0, user_type |-> "free", days |-> 0,
      expiry |-> NoDate, source |-> NULL, by |-> 0,
      pc |-> op, stack |-> <<>>,
      user |-> None, isadm |-> FALSE, utype |-> "free", today |-> 0,
      ad |-> 0, du |-> 0, date |-> 0, success |-> FALSE,
      sid |-> "", session |-> NULL, raises |-> FALSE,
      banned |-> FALSE, had |-> FALSE, expired |-> {}, deleted |-> <<0, 0>>,
      file_id |-> NULL, idx |-> 0, next |-> 0, backups |-> 0,
      ret |-> FALSE ]

Idle == [Frame("idle", 0) EXCEPT !.pc = "done"]

Goto(c, label) == [c EXCEPT !.f.pc = label]
\* Call a method: run from `label`, then continue at `back`.
Call(c, label, back) ==
    [c EXCEPT !.f.pc = label, !.f.stack = <<back>> \o c.f.stack]
\* What a method called directly hands back.
ResultOf(f) ==
    CASE f.op = "get_user" -> f.user
      [] f.op = "is_admin" -> f.isadm
      [] f.op = "get_user_type" -> f.utype
      [] f.op = "get_daily_usage" -> f.du
      [] f.op = "is_banned" -> f.banned
      [] f.op = "get_user_shortener_index" -> f.idx
      [] OTHER -> FALSE
\* Return from the public operation with a result.
Finish(c, ret) == [c EXCEPT !.f.pc = "done", !.f.ret = ret]
\* Return from a method to its caller.
Return(c) ==
    IF c.f.stack = <<>>
    THEN Finish(c, ResultOf(c.f))
    ELSE [c EXCEPT !.f.pc = Head(c.f.stack), !.f.stack = Tail(c.f.stack)]

\* ---------------------------------------------------------------- get_user
\* cached = self.cache.get(cache_key); if cached is not None: return cached
GetUser_CacheGet(c) ==
    LET cached == CacheGet(c.cache, c.now, UserKey(c.f.u)) IN
    IF cached # None
    THEN Return([c EXCEPT !.f.user = cached])
    ELSE Goto(c, "get_user_select")

\* SELECT * FROM users WHERE user_id = ?
GetUser_Select(c) ==
    IF c.f.u \in DOMAIN c.users
    THEN Goto([c EXCEPT !.f.user = Some(c.users[c.f.u])], "get_user_set")
    ELSE Return([c EXCEPT !.f.user = None])

\* self.cache.set(cache_key, user, ttl=180); return user
GetUser_CacheSet(c) ==
    Return([c EXCEPT !.cache =
        CacheSet(c.cache, c.now, UserKey(c.f.u), c.f.user[1], USER_TTL)])

\* ---------------------------------------------------------------- is_admin
IsAdmin_CacheGet(c) ==
    LET cached == CacheGet(c.cache, c.now, AdminKey(c.f.u)) IN
    IF cached # None
    THEN Return([c EXCEPT !.f.isadm = cached[1]])
    ELSE Goto(c, "is_admin_select")

\* SELECT 1 FROM admins WHERE user_id = ?
IsAdmin_Select(c) ==
    Goto([c EXCEPT !.f.isadm = (c.f.u \in DOMAIN c.admins)], "is_admin_set")

\* self.cache.set(cache_key, is_admin, ttl=300)
IsAdmin_CacheSet(c) ==
    Return([c EXCEPT !.cache =
        CacheSet(c.cache, c.now, AdminKey(c.f.u), c.f.isadm, ADMIN_TTL)])

\* ----------------------------------------------------------- get_user_type
GetUserType_Start(c) == Call(c, "get_user", "get_user_type_user")

\* if not user: return 'free'; then is_admin(user_id)
GetUserType_User(c) ==
    IF c.f.user = None
    THEN Return([c EXCEPT !.f.utype = "free"])
    ELSE Call(c, "is_admin", "get_user_type_admin")

\* The tier of a non-admin from the record read: 'paid' while the
\* subscription has not ended; an ended one is downgraded first.
GetUserType_Tier(c) ==
    LET user == c.f.user[1] IN
    IF c.f.isadm
    THEN Return([c EXCEPT !.f.utype = "admin"])
    ELSE IF user.user_type = "paid" /\ user.subscription_end # NoDate
         THEN IF ParseDateTime(user.subscription_end) > c.now
              THEN Return([c EXCEPT !.f.utype = "paid"])
              ELSE Goto(c, "get_user_type_downgrade")
         ELSE Return([c EXCEPT !.f.utype = "free"])

\* The downgrade as UPDATE users SET user_type = 'free' alone.
GetUserType_DowngradeTierOnly(c) ==
    LET u == c.f.u IN
    Return([c EXCEPT
        !.users = IF u \in DOMAIN c.users
                  THEN [c.users EXCEPT ![u].user_type = "free"]
                  ELSE c.users,
        !.f.utype = "free"])

\* UPDATE users SET user_type = 'free', subscription_end = NULL,
\* premium_source = NULL WHERE user_id = ?
GetUserType_Downgrade(c) ==
    LET u == c.f.u IN
    Return([c EXCEPT
        !.users = IF u \in DOMAIN c.users
                  THEN [c.users EXCEPT ![u].user_type = "free",
                                       ![u].subscription_end = NoDate,
                                       ![u].premium_source = NULL]
                  ELSE c.users,
        !.f.utype = "free"])

\* ---------------------------------------------- reset_ad_downloads_if_needed
ResetAd_Start(c) == Call(c, "get_user", "reset_ad_downloads_user")

\* if not user: return; today = now().strftime('%Y-%m-%d');
\* if reset_date != today: ...
ResetAd_User(c) ==
    IF c.f.user = None
    THEN Return(c)
    ELSE LET today == Date(c.now) IN
         IF c.f.user[1].ad_downloads_reset_date # today
         THEN Goto([c EXCEPT !.f.today = today], "reset_ad_downloads_update")
         ELSE Return(c)

\* UPDATE users SET ad_downloads = 0, ad_downloads_reset_date = ? WHERE user_id = ?
ResetAd_Update(c) ==
    LET u == c.f.u IN
    Goto([c EXCEPT !.users =
            IF u \in DOMAIN c.users
            THEN [c.users EXCEPT ![u].ad_downloads = 0,
                                 ![u].ad_downloads_reset_date = c.f.today]
            ELSE c.users],
         "reset_ad_downloads_invalidate")

\* self.cache.delete(f"user_{user_id}")
ResetAd_Invalidate(c) ==
    Return([c EXCEPT !.cache = CacheDelete(c.cache, UserKey(c.f.u))])

\* --------------------------------------------------------- get_daily_usage
\* date = datetime.now().strftime('%Y-%m-%d')
GetDailyUsage_Date(c) ==
    Goto([c EXCEPT !.f.date = Date(c.now)], "get_daily_usage_select")

\* SELECT files_downloaded FROM daily_usage WHERE user_id = ? AND date = ?
GetDailyUsage_Select(c) ==
    LET key == <<c.f.u, c.f.date>> IN
    Return([c EXCEPT !.f.du = IF key \in DOMAIN c.usage THEN c.usage[key] ELSE 0])

\* --------------------------------------------------------- increment_usage
IncrementUsage_Start(c) == Call(c, "get_user_type", "increment_usage_type")

\* def increment_shortener_rotation(self) -> bool: return True
IncrementShortenerRotation(c) == c

\* for _ in range(count): self.increment_shortener_rotation()
RECURSIVE RotationLoop(_, _)
RotationLoop(c, n) ==
    IF n <= 0 THEN c ELSE RotationLoop(IncrementShortenerRotation(c), n - 1)

\* if user_type in ['admin', 'paid']: (the rotation loop) return True
IncrementUsage_Type(c) ==
    IF c.f.utype \in {"admin", "paid"}
    THEN Finish(RotationLoop(c, c.f.count), TRUE)
    ELSE Call(c, "reset_ad_downloads_if_needed", "increment_usage_reset")

IncrementUsage_Reset(c) == Call(c, "get_user", "increment_usage_user")

\* ad_downloads = user.get('ad_downloads', 0) if user else 0
\* if ad_downloads > 0: if count > ad_downloads: return False
IncrementUsage_User(c) ==
    LET ad == IF c.f.user = None THEN 0 ELSE c.f.user[1].ad_downloads
        d == [c EXCEPT !.f.ad = ad] IN
    IF ad > 0
    THEN IF c.f.count > ad
         THEN Finish(d, FALSE)
         ELSE Goto(d, "increment_usage_deduct")
    ELSE Call(d, "get_daily_usage", "increment_usage_limit")

\* The deduction without its balance condition: UPDATE users SET
\* ad_downloads = ad_downloads - ? WHERE user_id = ?
IncrementUsage_DeductUnconditional(c) ==
    LET u == c.f.u IN
    IF u \in DOMAIN c.users
    THEN Goto([c EXCEPT !.users[u].ad_downloads = @ - c.f.count,
                        !.f.success = TRUE],
              "increment_usage_invalidate")
    ELSE Finish([c EXCEPT !.f.success = FALSE], FALSE)

\* UPDATE users SET ad_downloads = ad_downloads - ? WHERE user_id = ?
\* AND ad_downloads >= ?; success = cursor.rowcount > 0
IncrementUsage_Deduct(c) ==
    LET u == c.f.u
        success == u \in DOMAIN c.users /\ c.users[u].ad_downloads >= c.f.count IN
    IF success
    THEN Goto([c EXCEPT !.users[u].ad_downloads = @ - c.f.count,
                        !.f.success = TRUE],
              "increment_usage_invalidate")
    ELSE Finish([c EXCEPT !.f.success = FALSE], FALSE)

\* self.cache.delete(f"user_{user_id}"); (rotation, a no-op) return True
IncrementUsage_Invalidate(c) ==
    Finish([c EXCEPT !.cache = CacheDelete(c.cache, UserKey(c.f.u))], TRUE)

\* if daily_usage + count > 1: return False
\* date = datetime.now().strftime('%Y-%m-%d')
IncrementUsage_Limit(c) ==
    IF c.f.du + c.f.count > DAILY_LIMIT
    THEN Finish(c, FALSE)
    ELSE Goto([c EXCEPT !.f.date = Date(c.now)], "increment_usage_upsert")

\* The upsert with the table pruned to the day's row: the rows of earlier
\* dates are deleted.
IncrementUsage_UpsertPruning(c) ==
    LET key == <<c.f.u, c.f.date>>
        old == IF key \in DOMAIN c.usage THEN c.usage[key] ELSE 0 IN
    Finish([c EXCEPT !.usage = [k \in {key} |-> old + c.f.count]], TRUE)

\* INSERT OR IGNORE INTO daily_usage ... VALUES (?, ?, 0);
\* UPDATE daily_usage SET files_downloaded = files_downloaded + ?
\* UNIQUE(user_id, date): the table maps (user_id, date) to its one row.
IncrementUsage_Upsert(c) ==
    LET key == <<c.f.u, c.f.date>>
        old == IF key \in DOMAIN c.usage THEN c.usage[key] ELSE 0 IN
    Finish([c EXCEPT !.usage =
                [k \in DOMAIN c.usage \cup {key} |->
                    IF k = key THEN old + c.f.count ELSE c.usage[k]]],
           TRUE)

\* ------------------------------------------------------------ can_download
AllowedMsg == ""
InsufficientAdMsg == "insufficient_ad_downloads"
DailyLimitMsg == "daily_limit_reached"

CanDownload_Start(c) == Call(c, "get_user_type", "can_download_type")

\* The override test with the admin tier left out: if user_type == 'paid'
CanDownload_TypePaidOnly(c) ==
    IF c.f.utype = "paid"
    THEN Finish(c, <<TRUE, AllowedMsg>>)
    ELSE Call(c, "reset_ad_downloads_if_needed", "can_download_reset")

\* if user_type in ['admin', 'paid']: return True, ""
CanDownload_Type(c) ==
    IF c.f.utype \in {"admin", "paid"}
    THEN Finish(c, <<TRUE, AllowedMsg>>)
    ELSE Call(c, "reset_ad_downloads_if_needed", "can_download_reset")

CanDownload_Reset(c) == Call(c, "get_user", "can_download_user")

\* if ad_downloads > 0: if ad_downloads < count: return False, insufficient
CanDownload_User(c) ==
    LET ad == IF c.f.user = None THEN 0 ELSE c.f.user[1].ad_downloads
        d == [c EXCEPT !.f.ad = ad] IN
    IF ad > 0
    THEN IF ad < c.f.count
         THEN Finish(d, <<FALSE, InsufficientAdMsg>>)
         ELSE Finish(d, <<TRUE, AllowedMsg>>)
    ELSE Call(d, "get_daily_usage", "can_download_limit")

\* if daily_usage + count > 1: return False, daily limit
CanDownload_Limit(c) ==
    IF c.f.du + c.f.count > DAILY_LIMIT
    THEN Finish(c, <<FALSE, DailyLimitMsg>>)
    ELSE Finish(c, <<TRUE, AllowedMsg>>)

\* -------------------------------------------------------- get_ad_downloads
GetAdDownloads_Start(c) ==
    Call(c, "reset_ad_downloads_if_needed", "get_ad_downloads_reset")

GetAdDownloads_Reset(c) == Call(c, "get_user", "get_ad_downloads_user")

\* return user.get('ad_downloads', 0) if user else 0
GetAdDownloads_User(c) ==
    Finish(c, IF c.f.user = None THEN 0 ELSE c.f.user[1].ad_downloads)

\* -------------------------------------------------------- add_ad_downloads
\* UPDATE users SET ad_downloads = ad_downloads + ? WHERE user_id = ?
AddAdDownloads_Update(c) ==
    LET u == c.f.u IN
    IF u \in DOMAIN c.users
    THEN Goto([c EXCEPT !.users[u].ad_downloads = @ + c.f.count,
                        !.f.success = TRUE],
              "add_ad_downloads_invalidate")
    ELSE Goto([c EXCEPT !.f.success = FALSE], "add_ad_downloads_invalidate")

\* self.cache.delete(f"user_{user_id}")
AddAdDownloads_Invalidate(c) ==
    Goto([c EXCEPT !.cache = CacheDelete(c.cache, UserKey(c.f.u))],
         "add_ad_downloads_backup")

\* if success: try: trigger_backup_on_critical_change("add_ad_downloads",
\* ...) except Exception: (logged); return success
AddAdDownloads_Backup(c) ==
    IF c.f.success
    THEN IF c.f.raises
         THEN Finish([c EXCEPT !.f.backups = @ + 1], c.f.success)
         ELSE Finish([c EXCEPT !.f.backups = @ + 1], c.f.success)
    ELSE Finish(c, c.f.success)

\* ----------------------------------------------------------- set_user_type
\* One critical section: UPDATE users SET user_type, subscription_end,
\* premium_source WHERE user_id = ?; return cursor.rowcount > 0
SetUserType_Update(c) ==
    LET u == c.f.u
        subscription_end == DateStr(Date(c.now + c.f.days * SecondsPerDay)) IN
    IF u \notin DOMAIN c.users
    THEN Finish(c, FALSE)
    ELSE IF c.f.user_type = "paid"
         THEN Finish([c EXCEPT !.users[u].user_type = "paid",
                               !.users[u].subscription_end = subscription_end,
                               !.users[u].premium_source = "paid"], TRUE)
         ELSE Finish([c EXCEPT !.users[u].user_type = c.f.user_type,
                               !.users[u].subscription_end = NoDate,
                               !.users[u].premium_source = NULL], TRUE)

\* ------------------------------------------------------------- set_premium
SetPremium_Start(c) == Call(c, "get_user", "set_premium_user")

\* An ads grant is refused while the record read shows an unexpired premium
\* from another source.
SetPremium_User(c) ==
    LET user == c.f.user[1] IN
    IF /\ c.f.user # None
       /\ user.user_type = "paid"
       /\ user.subscription_end # NoDate
       /\ ParseDateTime(user.subscription_end) > c.now
       /\ c.f.source = "ads"
       /\ user.premium_source # "ads"
    THEN Finish(c, FALSE)
    ELSE Goto(c, "set_premium_update")

\* UPDATE users SET user_type = 'paid', subscription_end = ?,
\* premium_source = ? WHERE user_id = ?; success = cursor.rowcount > 0
SetPremium_Update(c) ==
    LET u == c.f.u IN
    IF u \notin DOMAIN c.users
    THEN Goto([c EXCEPT !.f.success = FALSE], "set_premium_backup")
    ELSE Goto([c EXCEPT !.users[u].user_type = "paid",
                        !.users[u].subscription_end = c.f.expiry,
                        !.users[u].premium_source = c.f.source,
                        !.f.success = TRUE], "set_premium_backup")

\* The trigger called without its own try/except: an exception it raises
\* reaches the method's handler, which returns False.
SetPremium_BackupUncaught(c) ==
    IF c.f.success /\ c.f.raises
    THEN Finish(c, FALSE)
    ELSE Finish(c, c.f.success)

\* if success: try: trigger_backup_on_critical_change("set_premium", ...)
\* except Exception: (logged); return success
SetPremium_Backup(c) ==
    IF c.f.success
    THEN IF c.f.raises
         THEN Finish([c EXCEPT !.f.backups = @ + 1], c.f.success)
         ELSE Finish([c EXCEPT !.f.backups = @ + 1], c.f.success)
    ELSE Finish(c, c.f.success)

\* ---------------------------------------------------------------- add_user
\* The upsert as INSERT OR REPLACE: an existing row is overwritten by a
\* new one.
AddUser_UpsertReplace(c) ==
    LET u == c.f.u IN
    Goto([c EXCEPT !.users =
             [k \in DOMAIN c.users \cup {u} |->
                 IF k = u THEN NewRow(c.f.user_type, c.now) ELSE c.users[k]],
          !.f.success = (u \notin DOMAIN c.users)],
         "add_user_backup")

\* One critical section: INSERT the row when the id has none, else UPDATE
\* last_activity and the profile fields given.  success stands for
\* `not exists`.
AddUser_Upsert(c) ==
    LET u == c.f.u IN
    IF u \notin DOMAIN c.users
    THEN Goto([c EXCEPT !.users =
                    [k \in DOMAIN c.users \cup {u} |->
                        IF k = u THEN NewRow(c.f.user_type, c.now)
                        ELSE c.users[k]],
                  !.f.success = TRUE], "add_user_backup")
    ELSE Goto([c EXCEPT !.f.success = FALSE], "add_user_backup")

\* if not exists: try: trigger_backup_on_critical_change("add_user", ...)
\* except Exception: (logged); return True
AddUser_Backup(c) ==
    IF c.f.success
    THEN IF c.f.raises
         THEN Finish([c EXCEPT !.f.backups = @ + 1], TRUE)
         ELSE Finish([c EXCEPT !.f.backups = @ + 1], TRUE)
    ELSE Finish(c, TRUE)

\* --------------------------------------------------- add_admin, remove_admin
\* The insert as INSERT OR IGNORE: an existing entry is kept.
AddAdmin_InsertIgnore(c) ==
    Goto([c EXCEPT !.admins =
            [k \in DOMAIN c.admins \cup {c.f.u} |->
                IF k \in DOMAIN c.admins THEN c.admins[k] ELSE c.f.by]],
         "add_admin_invalidate_admin")

\* INSERT OR REPLACE INTO admins (user_id, added_by, added_date); user_id is
\* the primary key, so the table maps an id to its one entry.
AddAdmin_Insert(c) ==
    Goto([c EXCEPT !.admins =
            [k \in DOMAIN c.admins \cup {c.f.u} |->
                IF k = c.f.u THEN c.f.by ELSE c.admins[k]]],
         "add_admin_invalidate_admin")

\* self.cache.delete(f"admin_{user_id}")
AddAdmin_InvalidateAdmin(c) ==
    Goto([c EXCEPT !.cache = CacheDelete(c.cache, AdminKey(c.f.u))],
         "add_admin_invalidate_user")

\* self.cache.delete(f"user_{user_id}"); return True
AddAdmin_InvalidateUser(c) ==
    Finish([c EXCEPT !.cache = CacheDelete(c.cache, UserKey(c.f.u))], TRUE)

\* DELETE FROM admins WHERE user_id = ?; deleted = cursor.rowcount > 0
RemoveAdmin_Delete(c) ==
    Goto([c EXCEPT !.admins = [k \in DOMAIN c.admins \ {c.f.u} |-> c.admins[k]],
                   !.f.success = (c.f.u \in DOMAIN c.admins)],
         "remove_admin_invalidate_admin")

RemoveAdmin_InvalidateAdmin(c) ==
    Goto([c EXCEPT !.cache = CacheDelete(c.cache, AdminKey(c.f.u))],
         "remove_admin_invalidate_user")

\* self.cache.delete(f"user_{user_id}"); return deleted
RemoveAdmin_InvalidateUser(c) ==
    Finish([c EXCEPT !.cache = CacheDelete(c.cache, UserKey(c.f.u))], c.f.success)

\* ------------------------------------------- ban_user, unban_user, is_banned
\* UPDATE users SET is_banned = 1 WHERE user_id = ?; success = rowcount > 0
BanUser_Update(c) ==
    LET u == c.f.u IN
    IF u \in DOMAIN c.users
    THEN Goto([c EXCEPT !.users[u].is_banned = TRUE, !.f.success = TRUE],
              "ban_user_invalidate_banned")
    ELSE Goto([c EXCEPT !.f.success = FALSE], "ban_user_invalidate_banned")

BanUser_InvalidateBanned(c) ==
    Goto([c EXCEPT !.cache = CacheDelete(c.cache, BannedKey(c.f.u))],
         "ban_user_invalidate_user")

\* self.cache.delete(f"user_{user_id}"); return success
BanUser_InvalidateUser(c) ==
    Finish([c EXCEPT !.cache = CacheDelete(c.cache, UserKey(c.f.u))], c.f.success)

\* UPDATE users SET is_banned = 0 WHERE user_id = ?; success = rowcount > 0
UnbanUser_Update(c) ==
    LET u == c.f.u IN
    IF u \in DOMAIN c.users
    THEN Goto([c EXCEPT !.users[u].is_banned = FALSE, !.f.success = TRUE],
              "unban_user_invalidate_banned")
    ELSE Goto([c EXCEPT !.f.success = FALSE], "unban_user_invalidate_banned")

UnbanUser_InvalidateBanned(c) ==
    Goto([c EXCEPT !.cache = CacheDelete(c.cache, BannedKey(c.f.u))],
         "unban_user_invalidate_user")

UnbanUser_InvalidateUser(c) ==
    Finish([c EXCEPT !.cache = CacheDelete(c.cache, UserKey(c.f.u))], c.f.success)

\* cached = self.cache.get(f"banned_{user_id}"); if cached is not None: return
IsBanned_CacheGet(c) ==
    LET cached == CacheGet(c.cache, c.now, BannedKey(c.f.u)) IN
    IF cached # None
    THEN Return([c EXCEPT !.f.banned = cached[1]])
    ELSE Call(c, "get_user", "is_banned_user")

\* is_banned = bool(user and user.get('is_banned', False))
IsBanned_User(c) ==
    Goto([c EXCEPT !.f.banned = (c.f.user # None /\ c.f.user[1].is_banned)],
         "is_banned_set")

\* self.cache.set(cache_key, is_banned, ttl=300); return is_banned
IsBanned_CacheSet(c) ==
    Return([c EXCEPT !.cache =
        CacheSet(c.cache, c.now, BannedKey(c.f.u), c.f.banned, BANNED_TTL)])

\* -------------------------------------------------------- set_user_session
\* One critical section: SELECT session_string (had_session); UPDATE users
\* SET session_string = ? WHERE user_id = ?; success = rowcount > 0
SetUserSession_Update(c) ==
    LET u == c.f.u IN
    IF u \in DOMAIN c.users
    THEN Goto([c EXCEPT !.f.had = (c.users[u].session_string # NULL),
                        !.users[u].session_string = c.f.session,
                        !.f.success = TRUE],
              "set_user_session_invalidate")
    ELSE Goto([c EXCEPT !.f.had = FALSE, !.f.success = FALSE],
              "set_user_session_invalidate")

\* self.cache.delete(f"user_{user_id}")
SetUserSession_Invalidate(c) ==
    Goto([c EXCEPT !.cache = CacheDelete(c.cache, UserKey(c.f.u))],
         "set_user_session_backup")

\* The trigger called for every successful update that stores a session,
\* whether or not the user had one.
SetUserSession_BackupOnReplace(c) ==
    IF c.f.success /\ c.f.session # NULL
    THEN Finish([c EXCEPT !.f.backups = @ + 1], c.f.success)
    ELSE Finish(c, c.f.success)

\* if success and session_string and not had_session: try: trigger_backup_
\* on_session(user_id) except Exception: (logged); return success; backups
\* counts the calls of the trigger, which is entered before it can raise.
SetUserSession_Backup(c) ==
    IF c.f.success /\ c.f.session # NULL /\ ~c.f.had
    THEN IF c.f.raises
         THEN Finish([c EXCEPT !.f.backups = @ + 1], c.f.success)
         ELSE Finish([c EXCEPT !.f.backups = @ + 1], c.f.success)
    ELSE Finish(c, c.f.success)

\* ------------------------------------------- get_premium_users, get_stats
\* SQLite's `a > b` on two text values: NULL compares as not greater; the
\* texts 'YYYY-MM-DD' and 'YYYY-MM-DDTHH:MM:SS' compare byte by byte, so the
\* day decides first, a datetime is greater than the date it starts with,
\* and two datetimes of one day compare by their time.
TextKey(s) ==
    IF s.fmt = "date" THEN <<s.v, 0, 0>>
    ELSE <<Date(s.v), 1, s.v % SecondsPerDay>>

TextGreater(a, b) ==
    /\ a.fmt # "null"
    /\ b.fmt # "null"
    /\ LET x == TextKey(a)
           y == TextKey(b) IN
       \/ x[1] > y[1]
       \/ x[1] = y[1] /\ x[2] > y[2]
       \/ x[1] = y[1] /\ x[2] = y[2] /\ x[3] > y[3]

\* now = datetime.now().strftime('%Y-%m-%d'); ... WHERE user_type = 'paid'
\* AND subscription_end > now
PremiumRows(c) ==
    {u \in DOMAIN c.users :
        /\ c.users[u].user_type = "paid"
        /\ TextGreater(c.users[u].subscription_end, DateStr(Date(c.now)))}

\* SELECT user_id, username, subscription_end as premium_expiry FROM users
\* WHERE ... ORDER BY subscription_end DESC; return the rows as a list.
\* (username is not part of the rows here; rows with equal subscription_end
\* come in an order SQL leaves open.)
GetPremiumUsers_Select(c) ==
    LET ids == PremiumRows(c)
        n == Cardinality(ids)
        order == CHOOSE q \in [1 .. n -> ids] :
                    /\ \A i, j \in 1 .. n : i # j => q[i] # q[j]
                    /\ \A i, j \in 1 .. n : i < j =>
                          ~TextGreater(c.users[q[j]].subscription_end,
                                       c.users[q[i]].subscription_end) IN
    Finish(c, [i \in 1 .. n |->
                  [user_id |-> order[i],
                   premium_expiry |-> c.users[order[i]].subscription_end]])

\* The counts of get_stats over the stored tables.  (active_users and
\* today_new_users count by last_activity and joined_date, columns the rows
\* here do not carry.)
GetStats_Select(c) ==
    LET today == {k \in DOMAIN c.usage : k[2] = Date(c.now)}
        RECURSIVE Sum(_)
        Sum(ks) == IF ks = {} THEN 0
                   ELSE LET k == CHOOSE x \in ks : TRUE IN
                        c.usage[k] + Sum(ks \ {k}) IN
    Finish(c, [total_users |-> Cardinality(DOMAIN c.users),
               paid_users |-> Cardinality(PremiumRows(c)),
               admin_count |-> Cardinality(DOMAIN c.admins),
               today_downloads |-> Sum(today)])

\* ------------------------------------------- ad sessions, verification codes
\* Restriction of a table to the keys in `keep`.
Restrict(tbl, keep) == [k \in DOMAIN tbl \cap keep |-> tbl[k]]

\* The insert as INSERT OR REPLACE: an existing row gives way to a new,
\* unused one.
CreateAdSession_InsertReplace(c) ==
    LET sid == c.f.sid IN
    Finish([c EXCEPT !.ad_sessions =
               [k \in DOMAIN c.ad_sessions \cup {sid} |->
                   IF k = sid
                   THEN [user_id |-> c.f.u, created_at |-> IsoStr(c.now),
                         used |-> FALSE]
                   ELSE c.ad_sessions[k]]], TRUE)

\* INSERT INTO ad_sessions (session_id, user_id, created_at) VALUES (?, ?,
\* now().isoformat()); used defaults to 0.  session_id is the primary key:
\* a second INSERT of the same id raises, and the method returns False.
CreateAdSession_Insert(c) ==
    LET sid == c.f.sid IN
    IF sid \in DOMAIN c.ad_sessions
    THEN Finish(c, FALSE)
    ELSE Finish([c EXCEPT !.ad_sessions =
                    [k \in DOMAIN c.ad_sessions \cup {sid} |->
                        IF k = sid
                        THEN [user_id |-> c.f.u, created_at |-> IsoStr(c.now),
                              used |-> FALSE]
                        ELSE c.ad_sessions[k]]], TRUE)

\* SELECT * FROM ad_sessions WHERE session_id = ?; created_at parsed, used
\* as a bool
GetAdSession_Select(c) ==
    LET sid == c.f.sid IN
    IF sid \in DOMAIN c.ad_sessions
    THEN Finish(c, Some([c.ad_sessions[sid] EXCEPT
                            !.created_at = ParseDateTime(@)]))
    ELSE Finish(c, None)

\* The update without its `AND used = 0` condition.
MarkAdSessionUsed_UpdateUnconditional(c) ==
    LET sid == c.f.sid IN
    IF sid \in DOMAIN c.ad_sessions
    THEN Finish([c EXCEPT !.ad_sessions[sid].used = TRUE], TRUE)
    ELSE Finish(c, FALSE)

\* UPDATE ad_sessions SET used = 1 WHERE session_id = ? AND used = 0;
\* return cursor.rowcount > 0
MarkAdSessionUsed_Update(c) ==
    LET sid == c.f.sid IN
    IF sid \in DOMAIN c.ad_sessions /\ ~c.ad_sessions[sid].used
    THEN Finish([c EXCEPT !.ad_sessions[sid].used = TRUE], TRUE)
    ELSE Finish(c, FALSE)

\* DELETE FROM ad_sessions WHERE session_id = ?; return True
DeleteAdSession_Delete(c) ==
    Finish([c EXCEPT !.ad_sessions =
               Restrict(c.ad_sessions, DOMAIN c.ad_sessions \ {c.f.sid})], TRUE)

\* INSERT INTO ad_verifications (code, user_id, created_at); code is the
\* primary key.
CreateVerificationCode_Insert(c) ==
    LET code == c.f.sid IN
    IF code \in DOMAIN c.ad_verifications
    THEN Finish(c, FALSE)
    ELSE Finish([c EXCEPT !.ad_verifications =
                    [k \in DOMAIN c.ad_verifications \cup {code} |->
                        IF k = code
                        THEN [user_id |-> c.f.u, created_at |-> IsoStr(c.now)]
                        ELSE c.ad_verifications[k]]], TRUE)

\* SELECT * FROM ad_verifications WHERE code = ?
GetVerificationCode_Select(c) ==
    LET code == c.f.sid IN
    IF code \in DOMAIN c.ad_verifications
    THEN Finish(c, Some([c.ad_verifications[code] EXCEPT
                            !.created_at = ParseDateTime(@)]))
    ELSE Finish(c, None)

\* DELETE FROM ad_verifications WHERE code = ?; return True
DeleteVerificationCode_Delete(c) ==
    Finish([c EXCEPT !.ad_verifications =
               Restrict(c.ad_verifications,
                        DOMAIN c.ad_verifications \ {c.f.sid})], TRUE)

\* ------------------------------------------------ cleanup_expired_sessions
\* created_at < cutoff_time, a comparison of isoformat strings: between two
\* datetimes written by isoformat() it is the order of the instants.
IsoBefore(a, b) == a.v < b.v

\* The sweep with the comparison as created_at <= cutoff_time.
Cleanup_SweepInclusive(c) ==
    LET cutoff_time == IsoStr(c.now - SessionMaxAge)
        old_s == {k \in DOMAIN c.ad_sessions :
                     ~IsoBefore(cutoff_time, c.ad_sessions[k].created_at)}
        old_v == {k \in DOMAIN c.ad_verifications :
                     ~IsoBefore(cutoff_time, c.ad_verifications[k].created_at)} IN
    Goto([c EXCEPT
            !.ad_sessions = Restrict(@, DOMAIN @ \ old_s),
            !.ad_verifications = Restrict(@, DOMAIN @ \ old_v),
            !.f.expired = {c.ad_sessions[k].user_id : k \in old_s},
            !.f.deleted = <<Cardinality(old_s), Cardinality(old_v)>>],
         "cleanup_expired_sessions_invalidate")

\* cutoff_time = (now() - timedelta(minutes=60)).isoformat(); one critical
\* section: SELECT the sessions with created_at < cutoff_time, DELETE them,
\* DELETE the verification codes with created_at < cutoff_time; the
\* rowcounts are the numbers deleted.
Cleanup_Sweep(c) ==
    LET cutoff_time == IsoStr(c.now - SessionMaxAge)
        old_s == {k \in DOMAIN c.ad_sessions :
                     IsoBefore(c.ad_sessions[k].created_at, cutoff_time)}
        old_v == {k \in DOMAIN c.ad_verifications :
                     IsoBefore(c.ad_verifications[k].created_at, cutoff_time)} IN
    Goto([c EXCEPT
            !.ad_sessions = Restrict(@, DOMAIN @ \ old_s),
            !.ad_verifications = Restrict(@, DOMAIN @ \ old_v),
            !.f.expired = {c.ad_sessions[k].user_id : k \in old_s},
            !.f.deleted = <<Cardinality(old_s), Cardinality(old_v)>>],
         "cleanup_expired_sessions_invalidate")

\* The sweep returning its counts without the loop over expired_sessions.
Cleanup_InvalidateNone(c) ==
    Finish(c, [sessions |-> c.f.deleted[1], verifications |-> c.f.deleted[2]])

\* for session in expired_sessions: self.cache.delete(f"user_{user_id}");
\* return {'sessions': ..., 'verifications': ...}
Cleanup_Invalidate(c) ==
    Finish([c EXCEPT !.cache =
               Restrict(@, DOMAIN @ \ {UserKey(u) : u \in c.f.expired})],
           [sessions |-> c.f.deleted[1], verifications |-> c.f.deleted[2]])

\* ------------------------------------------------------- custom thumbnail
\* UPDATE users SET custom_thumbnail = ? WHERE user_id = ?;
\* return cursor.rowcount > 0
SetCustomThumbnail_Update(c) ==
    LET u == c.f.u IN
    IF u \in DOMAIN c.users
    THEN Finish([c EXCEPT !.users[u].custom_thumbnail = c.f.file_id], TRUE)
    ELSE Finish(c, FALSE)

\* UPDATE users SET custom_thumbnail = NULL WHERE user_id = ?;
\* return cursor.rowcount > 0
DeleteCustomThumbnail_Update(c) ==
    LET u == c.f.u IN
    IF u \in DOMAIN c.users
    THEN Finish([c EXCEPT !.users[u].custom_thumbnail = NULL], TRUE)
    ELSE Finish(c, FALSE)

\* user = self.get_user(user_id)
GetCustomThumbnail_Start(c) == Call(c, "get_user", "get_custom_thumbnail_user")

\* return user.get('custom_thumbnail') if user else None
GetCustomThumbnail_User(c) ==
    Finish(c, IF c.f.user = None THEN NULL ELSE c.f.user[1].custom_thumbnail)

\* --------------------------------------------------------- get_user_session
GetUserSession_Start(c) == Call(c, "get_user", "get_user_session_user")

\* return user.get('session_string') if user else None
GetUserSession_User(c) ==
    Finish(c, IF c.f.user = None THEN NULL ELSE c.f.user[1].session_string)

\* ----------------------------------------------------------------- rotation
GetUserShortenerIndex_Start(c) ==
    Call(c, "get_user", "get_user_shortener_index_user")

\* return user.get('shortener_index', 0) if user else 0
GetUserShortenerIndex_User(c) ==
    Return([c EXCEPT !.f.idx =
               IF c.f.user = None THEN 0 ELSE c.f.user[1].shortener_index])

\* current_index = self.get_user_shortener_index(user_id)
RotateUserShortener_Start(c) ==
    Call(c, "get_user_shortener_index", "rotate_user_shortener_next")

\* next_index = (current_index + 1) % 4
RotateUserShortener_Next(c) ==
    Goto([c EXCEPT !.f.next = (c.f.idx + 1) % 4], "rotate_user_shortener_update")

\* UPDATE users SET shortener_index = ? WHERE user_id = ?  (next_index);
\* success = cursor.rowcount > 0
RotateUserShortener_Update(c) ==
    LET u == c.f.u IN
    IF u \in DOMAIN c.users
    THEN Goto([c EXCEPT !.users[u].shortener_index = c.f.next,
                        !.f.success = TRUE], "rotate_user_shortener_invalidate")
    ELSE Goto([c EXCEPT !.f.success = FALSE], "rotate_user_shortener_invalidate")

\* self.cache.delete(f"user_{user_id}"); return success
RotateUserShortener_Invalidate(c) ==
    Finish([c EXCEPT !.cache = CacheDelete(c.cache, UserKey(c.f.u))],
           c.f.success)

\* -------------------------------------------------------------- the machine
\* One step of the call whose frame is c.f.
Step(c) ==
    CASE c.f.pc = "get_user" -> GetUser_CacheGet(c)
      [] c.f.pc = "get_user_select" -> GetUser_Select(c)
      [] c.f.pc = "get_user_set" -> GetUser_CacheSet(c)
      [] c.f.pc = "is_admin" -> IsAdmin_CacheGet(c)
      [] c.f.pc = "is_admin_select" -> IsAdmin_Select(c)
      [] c.f.pc = "is_admin_set" -> IsAdmin_CacheSet(c)
      [] c.f.pc = "get_user_type" -> GetUserType_Start(c)
      [] c.f.pc = "get_user_type_user" -> GetUserType_User(c)
      [] c.f.pc = "get_user_type_admin" -> GetUserType_Tier(c)
      [] c.f.pc = "get_user_type_downgrade" -> GetUserType_Downgrade(c)
      [] c.f.pc = "reset_ad_downloads_if_needed" -> ResetAd_Start(c)
      [] c.f.pc = "reset_ad_downloads_user" -> ResetAd_User(c)
      [] c.f.pc = "reset_ad_downloads_update" -> ResetAd_Update(c)
      [] c.f.pc = "reset_ad_downloads_invalidate" -> ResetAd_Invalidate(c)
      [] c.f.pc = "get_daily_usage" -> GetDailyUsage_Date(c)
      [] c.f.pc = "get_daily_usage_select" -> GetDailyUsage_Select(c)
      [] c.f.pc = "increment_usage" -> IncrementUsage_Start(c)
      [] c.f.pc = "increment_usage_type" -> IncrementUsage_Type(c)
      [] c.f.pc = "increment_usage_reset" -> IncrementUsage_Reset(c)
      [] c.f.pc = "increment_usage_user" -> IncrementUsage_User(c)
      [] c.f.pc = "increment_usage_deduct" -> IncrementUsage_Deduct(c)
      [] c.f.pc = "increment_usage_invalidate" -> IncrementUsage_Invalidate(c)
      [] c.f.pc = "increment_usage_limit" -> IncrementUsage_Limit(c)
      [] c.f.pc = "increment_usage_upsert" -> IncrementUsage_Upsert(c)
      [] c.f.pc = "can_download" -> CanDownload_Start(c)
      [] c.f.pc = "can_download_type" -> CanDownload_Type(c)
      [] c.f.pc = "can_download_reset" -> CanDownload_Reset(c)
      [] c.f.pc = "can_download_user" -> CanDownload_User(c)
      [] c.f.pc = "can_download_limit" -> CanDownload_Limit(c)
      [] c.f.pc = "get_ad_downloads" -> GetAdDownloads_Start(c)
      [] c.f.pc = "get_ad_downloads_reset" -> GetAdDownloads_Reset(c)
      [] c.f.pc = "get_ad_downloads_user" -> GetAdDownloads_User(c)
      [] c.f.pc = "add_ad_downloads" -> AddAdDownloads_Update(c)
      [] c.f.pc = "add_ad_downloads_invalidate" -> AddAdDownloads_Invalidate(c)
      [] c.f.pc = "set_user_type" -> SetUserType_Update(c)
      [] c.f.pc = "set_premium" -> SetPremium_Start(c)
      [] c.f.pc = "set_premium_user" -> SetPremium_User(c)
      [] c.f.pc = "set_premium_update" -> SetPremium_Update(c)
      [] c.f.pc = "add_user" -> AddUser_Upsert(c)
      [] c.f.pc = "get_premium_users" -> GetPremiumUsers_Select(c)
      [] c.f.pc = "get_stats" -> GetStats_Select(c)
      [] c.f.pc = "create_ad_session" -> CreateAdSession_Insert(c)
      [] c.f.pc = "get_ad_session" -> GetAdSession_Select(c)
      [] c.f.pc = "mark_ad_session_used" -> MarkAdSessionUsed_Update(c)
      [] c.f.pc = "delete_ad_session" -> DeleteAdSession_Delete(c)
      [] c.f.pc = "create_verification_code" -> CreateVerificationCode_Insert(c)
      [] c.f.pc = "get_verification_code" -> GetVerificationCode_Select(c)
      [] c.f.pc = "delete_verification_code" -> DeleteVerificationCode_Delete(c)
      [] c.f.pc = "cleanup_expired_sessions" -> Cleanup_Sweep(c)
      [] c.f.pc = "cleanup_expired_sessions_invalidate" -> Cleanup_Invalidate(c)
      [] c.f.pc = "add_user_backup" -> AddUser_Backup(c)
      [] c.f.pc = "set_premium_backup" -> SetPremium_Backup(c)
      [] c.f.pc = "add_ad_downloads_backup" -> AddAdDownloads_Backup(c)
      [] c.f.pc = "ban_user" -> BanUser_Update(c)
      [] c.f.pc = "ban_user_invalidate_banned" -> BanUser_InvalidateBanned(c)
      [] c.f.pc = "ban_user_invalidate_user" -> BanUser_InvalidateUser(c)
      [] c.f.pc = "unban_user" -> UnbanUser_Update(c)
      [] c.f.pc = "unban_user_invalidate_banned" -> UnbanUser_InvalidateBanned(c)
      [] c.f.pc = "unban_user_invalidate_user" -> UnbanUser_InvalidateUser(c)
      [] c.f.pc = "is_banned" -> IsBanned_CacheGet(c)
      [] c.f.pc = "is_banned_user" -> IsBanned_User(c)
      [] c.f.pc = "is_banned_set" -> IsBanned_CacheSet(c)
      [] c.f.pc = "set_custom_thumbnail" -> SetCustomThumbnail_Update(c)
      [] c.f.pc = "delete_custom_thumbnail" -> DeleteCustomThumbnail_Update(c)
      [] c.f.pc = "get_custom_thumbnail" -> GetCustomThumbnail_Start(c)
      [] c.f.pc = "get_custom_thumbnail_user" -> GetCustomThumbnail_User(c)
      [] c.f.pc = "get_user_session" -> GetUserSession_Start(c)
      [] c.f.pc = "get_user_session_user" -> GetUserSession_User(c)
      [] c.f.pc = "get_user_shortener_index" -> GetUserShortenerIndex_Start(c)
      [] c.f.pc = "get_user_shortener_index_user" -> GetUserShortenerIndex_User(c)
      [] c.f.pc = "rotate_user_shortener" -> RotateUserShortener_Start(c)
      [] c.f.pc = "rotate_user_shortener_next" -> RotateUserShortener_Next(c)
      [] c.f.pc = "rotate_user_shortener_update" -> RotateUserShortener_Update(c)
      [] c.f.pc = "rotate_user_shortener_invalidate" ->
            RotateUserShortener_Invalidate(c)
      [] c.f.pc = "set_user_session" -> SetUserSession_Update(c)
      [] c.f.pc = "set_user_session_invalidate" -> SetUserSession_Invalidate(c)
      [] c.f.pc = "set_user_session_backup" -> SetUserSession_Backup(c)
      [] c.f.pc = "add_admin" -> AddAdmin_Insert(c)
      [] c.f.pc = "add_admin_invalidate_admin" -> AddAdmin_InvalidateAdmin(c)
      [] c.f.pc = "add_admin_invalidate_user" -> AddAdmin_InvalidateUser(c)
      [] c.f.pc = "remove_admin" -> RemoveAdmin_Delete(c)
      [] c.f.pc = "remove_admin_invalidate_admin" -> RemoveAdmin_InvalidateAdmin(c)
      [] c.f.pc = "remove_admin_invalidate_user" -> RemoveAdmin_InvalidateUser(c)

\* A call run to its return with no other call in between.
RECURSIVE Run(_)
Run(c) == IF c.f.pc = "done" THEN c ELSE Run(Step(c))

\* ------------------------------------------------------- storage failures
\* The labels whose step is a `with self.lock:` block.
LockedLabels ==
    { "add_user", "get_user_type_downgrade", "add_admin", "remove_admin",
      "set_user_type", "set_premium_update", "increment_usage_deduct",
      "increment_usage_upsert", "ban_user", "unban_user", "set_user_session",
      "add_ad_downloads", "reset_ad_downloads_update", "create_ad_session",
      "mark_ad_session_used", "delete_ad_session", "create_verification_code",
      "delete_verification_code", "cleanup_expired_sessions",
      "set_custom_thumbnail", "delete_custom_thumbnail",
      "rotate_user_shortener_update" }

\* The labels whose step runs SQL: the critical sections and the SELECTs of
\* the read paths.  A storage failure is an exception raised there; the
\* statement then changes nothing.
StorageLabels ==
    LockedLabels \cup {"get_user_select", "is_admin_select",
                       "get_daily_usage_select", "get_ad_session",
                       "get_verification_code", "get_premium_users",
                       "get_stats"}

\* The labels inside a try block whose handler makes the public method
\* return False.  A label after a call stands for the call site.
ReturnsFalseOnError ==
    { "add_user", "add_admin", "remove_admin", "set_user_type",
      "set_premium_user", "set_premium_update",
      "increment_usage_type", "increment_usage_reset", "increment_usage_user",
      "increment_usage_deduct", "increment_usage_limit",
      "increment_usage_upsert",
      "ban_user", "unban_user", "set_user_session", "add_ad_downloads",
      "create_ad_session", "mark_ad_session_used", "delete_ad_session",
      "create_verification_code", "delete_verification_code",
      "set_custom_thumbnail", "delete_custom_thumbnail",
      "rotate_user_shortener_next", "rotate_user_shortener_update" }

\* An exception propagating at label c.f.pc: the innermost enclosing handler
\* returns the method's default, and where the method has no try block
\* around the label the exception goes on to the caller; out of the public
\* method it leaves the call as "raised".
RECURSIVE Unwind(_)
Unwind(c) ==
    CASE c.f.pc = "get_user_select" -> Return([c EXCEPT !.f.user = None])
      [] c.f.pc = "is_admin_select" -> Return([c EXCEPT !.f.isadm = FALSE])
      [] c.f.pc = "get_daily_usage_select" -> Return([c EXCEPT !.f.du = 0])
      [] c.f.pc \in ReturnsFalseOnError -> Finish(c, FALSE)
      [] c.f.pc \in {"get_ad_session", "get_verification_code"} ->
            Finish(c, None)
      [] c.f.pc \in {"get_ad_downloads_reset", "get_ad_downloads_user"} ->
            Finish(c, 0)
      [] c.f.pc = "cleanup_expired_sessions" ->
            Finish(c, [sessions |-> 0, verifications |-> 0])
      [] c.f.pc = "get_premium_users" -> Finish(c, <<>>)
      [] c.f.pc = "get_stats" -> Finish(c, <<>>)
      [] OTHER ->
            IF c.f.stack = <<>>
            THEN [c EXCEPT !.f.pc = "raised"]
            ELSE Unwind([c EXCEPT !.f.pc = Head(c.f.stack),
                                  !.f.stack = Tail(c.f.stack)])

\* The call run to its end with a storage failure at its k-th SQL step
\* (counted from 0); no failure when the call has fewer.
RECURSIVE RunFault(_, _)
RunFault(c, k) ==
    IF c.f.pc \in {"done", "raised"} THEN c
    ELSE IF c.f.pc \in StorageLabels
         THEN IF k = 0
              THEN RunFault(Unwind(c), -1)
              ELSE RunFault(Step(c), k - 1)
         ELSE RunFault(Step(c), k)

\* ------------------------------------------------------------------ inputs
TierArgs == {"free", "paid"}
DaysArgs == {1}
SourceArgs == {"ads", "referral"}
\* Expiry datetimes a caller passes to set_premium: two minutes after the
\* start, and thirty days after it.
ExpiryArgs == {IsoStr(StartTime + 120), IsoStr(StartTime + 30 * SecondsPerDay)}
\* The added_by argument of add_admin.
Grantor == 9
Counts == 1 .. MaxCount

EmptyTable == [k \in {} |-> 0]

Config(f) ==
    [users |-> users, usage |-> usage, admins |-> admins, cache |-> cache,
     ad_sessions |-> ad_sessions, ad_verifications |-> ad_verifications,
     now |-> now, f |-> f]

UsageOf(tbl, u, d) == IF <<u, d>> \in DOMAIN tbl THEN tbl[<<u, d>>] ELSE 0

\* The cache holds no live entry for u that differs from what is stored.
Fresh(u) ==
    /\ CacheGet(cache, now, UserKey(u)) \in
          {None} \cup {Some(users[k]) : k \in {u} \cap DOMAIN users}
    /\ CacheGet(cache, now, AdminKey(u)) \in {None, Some(u \in DOMAIN admins)}

Init ==
    /\ users = EmptyTable
    /\ usage = EmptyTable
    /\ admins = EmptyTable
    /\ cache = EmptyTable
    /\ now = StartTime
    /\ threads = [t \in Threads |-> Idle]
    /\ ad_sessions = EmptyTable
    /\ ad_verifications = EmptyTable
    /\ held = {}

\* ------------------------------------------------- Spec: one call at a time
Do(f) ==
    \E r \in {Run(Config(f))} :
    /\ users' = r.users
    /\ usage' = r.usage
    /\ admins' = r.admins
    /\ cache' = r.cache
    /\ ad_sessions' = r.ad_sessions
    /\ ad_verifications' = r.ad_verifications

AddUser ==
    \E u \in UserIds, ty \in TierArgs, raises \in BOOLEAN :
        /\ Do([Frame("add_user", u) EXCEPT !.user_type = ty, !.raises = raises])
        /\ UNCHANGED <<now, threads, held>>

GetUser ==
    \E u \in UserIds :
        /\ Do(Frame("get_user", u))
        /\ UNCHANGED <<now, threads, held>>

GetUserType ==
    \E u \in UserIds :
        /\ Do(Frame("get_user_type", u))
        /\ UNCHANGED <<now, threads, held>>

IsAdmin ==
    \E u \in UserIds :
        /\ Do(Frame("is_admin", u))
        /\ UNCHANGED <<now, threads, held>>

AddAdmin ==
    \E u \in UserIds :
        /\ Do([Frame("add_admin", u) EXCEPT !.by = Grantor])
        /\ UNCHANGED <<now, threads, held>>

RemoveAdmin ==
    \E u \in UserIds :
        /\ Do(Frame("remove_admin", u))
        /\ UNCHANGED <<now, threads, held>>

SetUserType ==
    \E u \in UserIds, ty \in TierArgs, d \in DaysArgs :
        /\ Do([Frame("set_user_type", u) EXCEPT !.user_type = ty, !.days = d])
        /\ UNCHANGED <<now, threads, held>>

SetPremium ==
    \E u \in UserIds, e \in ExpiryArgs, s \in SourceArgs, raises \in BOOLEAN :
        /\ Do([Frame("set_premium", u) EXCEPT !.expiry = e, !.source = s,
                                              !.raises = raises])
        /\ UNCHANGED <<now, threads, held>>

IncrementUsage ==
    \E u \in UserIds, n \in Counts :
        /\ Do([Frame("increment_usage", u) EXCEPT !.count = n])
        /\ UNCHANGED <<now, threads, held>>

CanDownload ==
    \E u \in UserIds, n \in Counts :
        /\ Do([Frame("can_download", u) EXCEPT !.count = n])
        /\ UNCHANGED <<now, threads, held>>

GetAdDownloads ==
    \E u \in UserIds :
        /\ Do(Frame("get_ad_downloads", u))
        /\ UNCHANGED <<now, threads, held>>

\* add_ad_downloads is not called beyond the cap on the balance.
AddAdDownloads ==
    \E u \in UserIds, n \in 0 .. MaxCount :
        /\ u \in DOMAIN users => users[u].ad_downloads + n <= MaxAd
        /\ \E raises \in BOOLEAN :
              Do([Frame("add_ad_downloads", u) EXCEPT !.count = n,
                                                      !.raises = raises])
        /\ UNCHANGED <<now, threads, held>>

\* A minute passes.
Tick ==
    /\ now < StartTime + 60 * MaxTicks
    /\ now' = now + 60
    /\ cache' = CachePurge(cache, now')
    /\ UNCHANGED <<users, usage, admins, threads, ad_sessions, ad_verifications, held>>

Next ==
    \/ AddUser
    \/ GetUser
    \/ GetUserType
    \/ IsAdmin
    \/ AddAdmin
    \/ RemoveAdmin
    \/ SetUserType
    \/ SetPremium
    \/ IncrementUsage
    \/ CanDownload
    \/ GetAdDownloads
    \/ AddAdDownloads
    \/ Tick

Spec == Init /\ [][Next]_vars

\* ------------------------- SpecSess: ad sessions and verification codes
\* The session calls, one at a time, with the clock moving in half hours, so
\* that rows get older than SessionMaxAge.
SessionIds == {"s1", "s2"}
Codes == {"v1"}
HalfHour == 30 * 60

SessionCall(op, sid, u) == [Frame(op, u) EXCEPT !.sid = sid]

CreateAdSession ==
    \E sid \in SessionIds, u \in UserIds :
        /\ Do(SessionCall("create_ad_session", sid, u))
        /\ UNCHANGED <<now, threads, held>>

GetAdSession ==
    \E sid \in SessionIds :
        /\ Do(SessionCall("get_ad_session", sid, 0))
        /\ UNCHANGED <<now, threads, held>>

MarkAdSessionUsed ==
    \E sid \in SessionIds :
        /\ Do(SessionCall("mark_ad_session_used", sid, 0))
        /\ UNCHANGED <<now, threads, held>>

DeleteAdSession ==
    \E sid \in SessionIds :
        /\ Do(SessionCall("delete_ad_session", sid, 0))
        /\ UNCHANGED <<now, threads, held>>

CreateVerificationCode ==
    \E code \in Codes, u \in UserIds :
        /\ Do(SessionCall("create_verification_code", code, u))
        /\ UNCHANGED <<now, threads, held>>

GetVerificationCode ==
    \E code \in Codes :
        /\ Do(SessionCall("get_verification_code", code, 0))
        /\ UNCHANGED <<now, threads, held>>

DeleteVerificationCode ==
    \E code \in Codes :
        /\ Do(SessionCall("delete_verification_code", code, 0))
        /\ UNCHANGED <<now, threads, held>>

CleanupExpiredSessions ==
    /\ Do(Frame("cleanup_expired_sessions", 0))
    /\ UNCHANGED <<now, threads, held>>

\* Half an hour passes.
SessTick ==
    /\ now < StartTime + HalfHour * MaxSessTicks
    /\ now' = now + HalfHour
    /\ cache' = CachePurge(cache, now')
    /\ UNCHANGED <<users, usage, admins, threads, ad_sessions,
                   ad_verifications, held>>

NextSess ==
    \/ AddUser
    \/ GetUser
    \/ CreateAdSession
    \/ GetAdSession
    \/ MarkAdSessionUsed
    \/ DeleteAdSession
    \/ CreateVerificationCode
    \/ GetVerificationCode
    \/ DeleteVerificationCode
    \/ CleanupExpiredSessions
    \/ SessTick

SpecSess == Init /\ [][NextSess]_vars

\* ---------------------------- SpecBan: the cached flags and their writers
\* The calls that write a cached field (ban flag, admin membership, ad
\* balance) and the reads of those fields, one call at a time.
BanUser ==
    \E u \in UserIds :
        /\ Do(Frame("ban_user", u))
        /\ UNCHANGED <<now, threads, held>>

UnbanUser ==
    \E u \in UserIds :
        /\ Do(Frame("unban_user", u))
        /\ UNCHANGED <<now, threads, held>>

IsBanned ==
    \E u \in UserIds :
        /\ Do(Frame("is_banned", u))
        /\ UNCHANGED <<now, threads, held>>

NextBan ==
    \/ AddUser
    \/ GetUser
    \/ BanUser
    \/ UnbanUser
    \/ IsBanned
    \/ AddAdmin
    \/ RemoveAdmin
    \/ IsAdmin
    \/ AddAdDownloads
    \/ IncrementUsage
    \/ GetAdDownloads
    \/ Tick

SpecBan == Init /\ [][NextBan]_vars

\* ------------------------------ SpecBackup: the calls that trigger a backup
\* add_user, set_premium, set_user_session and add_ad_downloads call the
\* backup trigger after their commit; whether the trigger raises is an input
\* of the call.
SessionArgs == {NULL, "session"}

SetUserSession ==
    \E u \in UserIds, ss \in SessionArgs, raises \in BOOLEAN :
        /\ Do([Frame("set_user_session", u) EXCEPT !.session = ss,
                                                   !.raises = raises])
        /\ UNCHANGED <<now, threads, held>>

NextBackup ==
    \/ AddUser
    \/ GetUser
    \/ SetPremium
    \/ SetUserSession
    \/ AddAdDownloads
    \/ Tick

SpecBackup == Init /\ [][NextBackup]_vars

\* ------------------ SpecMisc: thumbnail, session token and rotation calls
\* The file_id argument of set_custom_thumbnail.
FileIds == {"file"}

SetCustomThumbnail ==
    \E u \in UserIds, fid \in FileIds :
        /\ Do([Frame("set_custom_thumbnail", u) EXCEPT !.file_id = fid])
        /\ UNCHANGED <<now, threads, held>>

DeleteCustomThumbnail ==
    \E u \in UserIds :
        /\ Do(Frame("delete_custom_thumbnail", u))
        /\ UNCHANGED <<now, threads, held>>

GetCustomThumbnail ==
    \E u \in UserIds :
        /\ Do(Frame("get_custom_thumbnail", u))
        /\ UNCHANGED <<now, threads, held>>

GetUserSession ==
    \E u \in UserIds :
        /\ Do(Frame("get_user_session", u))
        /\ UNCHANGED <<now, threads, held>>

RotateUserShortener ==
    \E u \in UserIds :
        /\ Do(Frame("rotate_user_shortener", u))
        /\ UNCHANGED <<now, threads, held>>

GetUserShortenerIndex ==
    \E u \in UserIds :
        /\ Do(Frame("get_user_shortener_index", u))
        /\ UNCHANGED <<now, threads, held>>

NextMisc ==
    \/ AddUser
    \/ GetUser
    \/ SetCustomThumbnail
    \/ DeleteCustomThumbnail
    \/ GetCustomThumbnail
    \/ SetUserSession
    \/ GetUserSession
    \/ RotateUserShortener
    \/ GetUserShortenerIndex
    \/ BanUser
    \/ UnbanUser
    \/ Tick

SpecMisc == Init /\ [][NextMisc]_vars

\* ------------------------------------ SpecAdmin: the admin registry
\* The added_by arguments: two grantors.
Grantors == {Grantor, Grantor - 1}

AddAdminBy ==
    \E u \in UserIds, by \in Grantors :
        /\ Do([Frame("add_admin", u) EXCEPT !.by = by])
        /\ UNCHANGED <<now, threads, held>>

NextAdmin ==
    \/ AddUser
    \/ GetUser
    \/ AddAdminBy
    \/ RemoveAdmin
    \/ IsAdmin
    \/ GetUserType
    \/ Tick

SpecAdmin == Init /\ [][NextAdmin]_vars

\* ------------------------------------- SpecConc: threads interleave steps
\* The calls of SpecConc all run within the first minute: the clock stands.
\* What a finished call leaves in its thread's frame: its arguments, the
\* values it decided on and its result.
Finished(f) ==
    [Idle EXCEPT !.op = f.op, !.u = f.u, !.count = f.count, !.ad = f.ad,
                 !.ret = f.ret]

\* The labels whose step reads and writes the frame alone: calls, returns
\* and branches on values already read.  Such a step commutes with every
\* step of another thread, so it is taken together with the step before it.
LocalLabels ==
    { "get_user_type", "get_user_type_user",
      "reset_ad_downloads_if_needed",
      "increment_usage", "increment_usage_type", "increment_usage_reset",
      "increment_usage_user",
      "can_download", "can_download_type", "can_download_reset",
      "can_download_user",
      "get_ad_downloads", "get_ad_downloads_reset", "get_ad_downloads_user",
      "set_premium", "is_banned_user",
      "get_custom_thumbnail", "get_custom_thumbnail_user",
      "get_user_session", "get_user_session_user",
      "get_user_shortener_index", "get_user_shortener_index_user",
      "rotate_user_shortener", "rotate_user_shortener_next",
      "add_user_backup", "set_premium_backup", "add_ad_downloads_backup",
      "set_user_session_backup" }

\* (The configuration is bound once, as x, before it is stepped.)
RECURSIVE Advance(_)
Advance(c) ==
    CHOOSE r \in {IF x.f.pc \in LocalLabels THEN Advance(Step(x)) ELSE x :
                     x \in {c}} : TRUE

\* The frame with the locals that are dead at its label cleared: a local
\* that is written before it is read again cannot affect the call.
Live(f) ==
    [f EXCEPT
        !.user = IF f.pc \in {"get_user_set", "is_admin", "is_admin_select",
                              "is_admin_set", "get_user_type_admin",
                              "reset_ad_downloads_user", "set_premium_user"}
                 THEN @ ELSE None,
        !.isadm = IF f.pc \in {"is_admin_set", "get_user_type_admin"}
                  THEN @ ELSE FALSE,
        !.utype = "free",
        !.today = IF f.pc = "reset_ad_downloads_update" THEN @ ELSE 0,
        !.ad = IF f.pc = "increment_usage_deduct" THEN @ ELSE 0,
        !.du = IF f.pc \in {"increment_usage_limit", "can_download_limit"}
               THEN @ ELSE 0,
        !.date = IF f.pc \in {"get_daily_usage_select", "increment_usage_upsert"}
                 THEN @ ELSE 0,
        !.success = IF f.pc \in {"add_ad_downloads_invalidate",
                                 "remove_admin_invalidate_admin",
                                 "remove_admin_invalidate_user",
                                 "ban_user_invalidate_banned",
                                 "ban_user_invalidate_user",
                                 "unban_user_invalidate_banned",
                                 "unban_user_invalidate_user",
                                 "set_user_session_invalidate",
                                 "rotate_user_shortener_invalidate"}
                    THEN @ ELSE FALSE,
        !.idx = 0,
        !.next = IF f.pc = "rotate_user_shortener_update" THEN @ ELSE 0,
        !.banned = IF f.pc = "is_banned_set" THEN @ ELSE FALSE,
        !.had = IF f.pc = "set_user_session_invalidate" THEN @ ELSE FALSE]

\* Thread t starts a call; the idle thread of the lowest number takes it.
Begin(t, f) ==
    /\ threads[t].pc = "done"
    /\ \A s \in Threads : s < t => threads[s].pc # "done"
    /\ threads' = [threads EXCEPT ![t] = Live(Advance(Config(f)).f)]

BeginAddUser(t) ==
    \E u \in UserIds :
        /\ Begin(t, Frame("add_user", u))
        /\ UNCHANGED <<users, usage, admins, cache, now, ad_sessions,
                       ad_verifications, held>>

BeginIncrementUsage(t) ==
    \E u \in UserIds, n \in Counts :
        /\ Begin(t, [Frame("increment_usage", u) EXCEPT !.count = n])
        /\ UNCHANGED <<users, usage, admins, cache, now, ad_sessions,
                       ad_verifications, held>>

BeginAddAdDownloads(t) ==
    \E u \in UserIds, n \in 0 .. MaxCount :
        /\ Begin(t, [Frame("add_ad_downloads", u) EXCEPT !.count = n])
        /\ UNCHANGED <<users, usage, admins, cache, now, ad_sessions,
                       ad_verifications, held>>

\* Thread t takes the next step of its call.  add_ad_downloads is not
\* run beyond the cap on the balance.
ThreadStep(t) ==
    /\ threads[t].pc # "done"
    /\ threads[t].pc = "add_ad_downloads" =>
          \A u \in {threads[t].u} \cap DOMAIN users :
              users[u].ad_downloads + threads[t].count <= MaxAd
    /\ \E r \in {Advance(Step(Config(threads[t])))} :
          /\ users' = r.users
          /\ usage' = r.usage
          /\ admins' = r.admins
          /\ cache' = r.cache
          /\ ad_sessions' = r.ad_sessions
          /\ ad_verifications' = r.ad_verifications
          /\ threads' = [threads EXCEPT ![t] =
                            IF r.f.pc = "done" THEN Finished(r.f) ELSE Live(r.f)]
    /\ UNCHANGED <<now, held>>

NextConc ==
    \/ \E t \in Threads : BeginAddUser(t)
    \/ \E t \in Threads : BeginIncrementUsage(t)
    \/ \E t \in Threads : BeginAddAdDownloads(t)
    \/ \E t \in Threads : ThreadStep(t)

SpecConc == Init /\ [][NextConc]_vars

\* ------------------------------ SpecLock: threads and the write lock
\* self.lock = Lock(): `held` is the set of threads inside a
\* `with self.lock:` block.  A thread at a locked label first acquires the
\* lock, then runs the block and releases it; the block ends either
\* normally or with sqlite3 raising, and `with` releases on both paths.

\* What a thread keeps of a finished mark_ad_session_used or
\* get_verification_code: the session or code and the result its caller
\* acts on.
MarkResult(f) == [Idle EXCEPT !.op = f.op, !.sid = f.sid, !.ret = f.ret]

\* A call that has ended, normally or with an exception, leaves its thread
\* idle.
Retire(f) ==
    IF f.pc \in {"done", "raised"}
    THEN IF f.op \in {"mark_ad_session_used", "get_verification_code"}
         THEN MarkResult(f)
         ELSE Idle
    ELSE Live(f)

\* The state after thread t has taken the step that ends in r.
Become(t, r) ==
    /\ users' = r.users
    /\ usage' = r.usage
    /\ admins' = r.admins
    /\ cache' = r.cache
    /\ ad_sessions' = r.ad_sessions
    /\ ad_verifications' = r.ad_verifications
    /\ threads' = [threads EXCEPT ![t] = Retire(r.f)]

\* Lock.acquire() with any thread let in, whoever holds the lock.
AcquireLock_NoWait(t) ==
    /\ threads[t].pc \in LockedLabels
    /\ t \notin held
    /\ held' = held \cup {t}
    /\ UNCHANGED <<users, usage, admins, cache, now, threads, ad_sessions,
                   ad_verifications>>

\* with self.lock: -- Lock.acquire() blocks while another thread holds it.
AcquireLock(t) ==
    /\ threads[t].pc \in LockedLabels
    /\ t \notin held
    /\ held = {}
    /\ held' = held \cup {t}
    /\ UNCHANGED <<users, usage, admins, cache, now, threads, ad_sessions,
                   ad_verifications>>

\* The block leaving the lock held when its body raises.
CriticalSection_KeepOnRaise(t) ==
    /\ t \in held
    /\ threads[t].pc \in LockedLabels
    /\ \E fails \in BOOLEAN :
          /\ Become(t, IF fails THEN Unwind(Config(threads[t]))
                       ELSE Advance(Step(Config(threads[t]))))
          /\ held' = IF fails THEN held ELSE held \ {t}
    /\ UNCHANGED now

\* The body of the `with self.lock:` block, then Lock.release().
CriticalSection(t) ==
    /\ t \in held
    /\ \E fails \in BOOLEAN :
          Become(t, IF fails THEN Unwind(Config(threads[t]))
                    ELSE Advance(Step(Config(threads[t]))))
    /\ held' = held \ {t}
    /\ UNCHANGED now

\* A step outside any `with self.lock:` block.
PlainStep(t) ==
    /\ threads[t].pc \notin LockedLabels \cup {"done"}
    /\ Become(t, Advance(Step(Config(threads[t]))))
    /\ UNCHANGED <<now, held>>

BeginSetUserType(t) ==
    \E u \in UserIds, d \in DaysArgs :
        /\ Begin(t, [Frame("set_user_type", u) EXCEPT
                        !.user_type = "paid", !.days = d])
        /\ UNCHANGED <<users, usage, admins, cache, now, ad_sessions,
                       ad_verifications, held>>

BeginBanUser(t) ==
    \E u \in UserIds :
        /\ Begin(t, Frame("ban_user", u))
        /\ UNCHANGED <<users, usage, admins, cache, now, ad_sessions,
                       ad_verifications, held>>

\* The read paths.
ReadOps == {"get_user", "is_admin", "is_banned", "can_download"}

BeginRead(t) ==
    \E u \in UserIds, op \in ReadOps :
        /\ Begin(t, [Frame(op, u) EXCEPT !.count = 1])
        /\ UNCHANGED <<users, usage, admins, cache, now, ad_sessions,
                       ad_verifications, held>>

\* The clock passes the midnight that ends day 0, once.
Midnight ==
    /\ now = StartTime
    /\ now' = now + 60
    /\ cache' = CachePurge(cache, now')
    /\ UNCHANGED <<users, usage, admins, threads, ad_sessions,
                   ad_verifications, held>>

NextLock ==
    \/ \E t \in Threads : BeginAddUser(t)
    \/ \E t \in Threads : BeginSetUserType(t)
    \/ \E t \in Threads : BeginBanUser(t)
    \/ \E t \in Threads : BeginRead(t)
    \/ \E t \in Threads : AcquireLock(t)
    \/ \E t \in Threads : CriticalSection(t)
    \/ \E t \in Threads : PlainStep(t)
    \/ Midnight

SpecLock == Init /\ [][NextLock]_vars

\* ------------------------- SpecMark: threads create and redeem ad sessions
\* Sessions are created, read and marked by concurrent threads and never
\* removed, so a session id names one row for the whole behaviour.
BeginCreateAdSession(t) ==
    \E sid \in SessionIds, u \in UserIds :
        /\ Begin(t, SessionCall("create_ad_session", sid, u))
        /\ UNCHANGED <<users, usage, admins, cache, now, ad_sessions,
                       ad_verifications, held>>

BeginMarkAdSessionUsed(t) ==
    \E sid \in SessionIds :
        /\ Begin(t, SessionCall("mark_ad_session_used", sid, 0))
        /\ UNCHANGED <<users, usage, admins, cache, now, ad_sessions,
                       ad_verifications, held>>

BeginGetAdSession(t) ==
    \E sid \in SessionIds :
        /\ Begin(t, SessionCall("get_ad_session", sid, 0))
        /\ UNCHANGED <<users, usage, admins, cache, now, ad_sessions,
                       ad_verifications, held>>

NextMark ==
    \/ \E t \in Threads : BeginCreateAdSession(t)
    \/ \E t \in Threads : BeginMarkAdSessionUsed(t)
    \/ \E t \in Threads : BeginGetAdSession(t)
    \/ \E t \in Threads : AcquireLock(t)
    \/ \E t \in Threads : CriticalSection(t)
    \/ \E t \in Threads : PlainStep(t)
    \/ SessTick

SpecMark == Init /\ [][NextMark]_vars

\* ------------------------------- SpecRotate: threads rotate the index
BeginRotateUserShortener(t) ==
    \E u \in UserIds :
        /\ Begin(t, Frame("rotate_user_shortener", u))
        /\ UNCHANGED <<users, usage, admins, cache, now, ad_sessions,
                       ad_verifications, held>>

BeginGetUserShortenerIndex(t) ==
    \E u \in UserIds :
        /\ Begin(t, Frame("get_user_shortener_index", u))
        /\ UNCHANGED <<users, usage, admins, cache, now, ad_sessions,
                       ad_verifications, held>>

NextRotate ==
    \/ \E t \in Threads : BeginAddUser(t)
    \/ \E t \in Threads : BeginRotateUserShortener(t)
    \/ \E t \in Threads : BeginGetUserShortenerIndex(t)
    \/ \E t \in Threads : ThreadStep(t)
    \/ Tick

SpecRotate == Init /\ [][NextRotate]_vars

\* ---------------- SpecDay: threads use the ad balance across a midnight
BeginCanDownload(t) ==
    \E u \in UserIds, n \in Counts :
        /\ Begin(t, [Frame("can_download", u) EXCEPT !.count = n])
        /\ UNCHANGED <<users, usage, admins, cache, now, ad_sessions,
                       ad_verifications, held>>

BeginGetUser(t) ==
    \E u \in UserIds :
        /\ Begin(t, Frame("get_user", u))
        /\ UNCHANGED <<users, usage, admins, cache, now, ad_sessions,
                       ad_verifications, held>>

\* The day changes while no call is running: "today" is the same day
\* throughout a call.
MidnightBetweenCalls ==
    /\ \A t \in Threads : threads[t].pc = "done"
    /\ now = StartTime
    /\ now' = now + 60
    /\ cache' = CachePurge(cache, now')
    /\ UNCHANGED <<users, usage, admins, threads, ad_sessions,
                   ad_verifications, held>>

NextDay ==
    \/ \E t \in Threads : BeginAddUser(t)
    \/ \E t \in Threads : BeginAddAdDownloads(t)
    \/ \E t \in Threads : BeginCanDownload(t)
    \/ \E t \in Threads : BeginGetUser(t)
    \/ \E t \in Threads : ThreadStep(t)
    \/ MidnightBetweenCalls

SpecDay == Init /\ [][NextDay]_vars

\* ------------- SpecStale: a ban, concurrent readers and the cache TTLs
TwoMinutes == 2 * 60

\* ban_user is called in the first interval only, so every ban was
\* committed at StartTime.
BeginBanUserAtStart(t) ==
    \E u \in UserIds :
        /\ now = StartTime
        /\ Begin(t, Frame("ban_user", u))
        /\ UNCHANGED <<users, usage, admins, cache, now, ad_sessions,
                       ad_verifications, held>>

BeginIsBanned(t) ==
    \E u \in UserIds :
        /\ Begin(t, Frame("is_banned", u))
        /\ UNCHANGED <<users, usage, admins, cache, now, ad_sessions,
                       ad_verifications, held>>

\* Two minutes pass while no call is running.
BanTick ==
    /\ \A t \in Threads : threads[t].pc = "done"
    /\ now < StartTime + TwoMinutes * MaxBanTicks
    /\ now' = now + TwoMinutes
    /\ cache' = CachePurge(cache, now')
    /\ UNCHANGED <<users, usage, admins, threads, ad_sessions,
                   ad_verifications, held>>

NextStale ==
    \/ \E t \in Threads : BeginAddUser(t)
    \/ \E t \in Threads : BeginBanUserAtStart(t)
    \/ \E t \in Threads : BeginIsBanned(t)
    \/ \E t \in Threads : BeginGetUser(t)
    \/ \E t \in Threads : ThreadStep(t)
    \/ BanTick

SpecStale == Init /\ [][NextStale]_vars

\* ------------------- SpecTier: threads change and resolve the tier
BeginAddUserOfType(t) ==
    \E u \in UserIds, ty \in TierArgs :
        /\ Begin(t, [Frame("add_user", u) EXCEPT !.user_type = ty])
        /\ UNCHANGED <<users, usage, admins, cache, now, ad_sessions,
                       ad_verifications, held>>

BeginSetTier(t) ==
    \E u \in UserIds, ty \in TierArgs, d \in DaysArgs :
        /\ Begin(t, [Frame("set_user_type", u) EXCEPT
                        !.user_type = ty, !.days = d])
        /\ UNCHANGED <<users, usage, admins, cache, now, ad_sessions,
                       ad_verifications, held>>

\* Grants in SpecTier run for thirty days.
BeginSetPremium(t) ==
    \E u \in UserIds, e \in {IsoStr(StartTime + 30 * SecondsPerDay)},
       src \in SourceArgs :
        /\ Begin(t, [Frame("set_premium", u) EXCEPT
                        !.expiry = e, !.source = src])
        /\ UNCHANGED <<users, usage, admins, cache, now, ad_sessions,
                       ad_verifications, held>>

BeginGetUserType(t) ==
    \E u \in UserIds :
        /\ Begin(t, Frame("get_user_type", u))
        /\ UNCHANGED <<users, usage, admins, cache, now, ad_sessions,
                       ad_verifications, held>>

NextTier ==
    \/ \E t \in Threads : BeginAddUserOfType(t)
    \/ \E t \in Threads : BeginSetTier(t)
    \/ \E t \in Threads : BeginSetPremium(t)
    \/ \E t \in Threads : BeginGetUserType(t)
    \/ \E t \in Threads : ThreadStep(t)
    \/ Midnight

SpecTier == Init /\ [][NextTier]_vars

\* ------------- SpecUsage: threads charge the daily allowance over two days
NextUsage ==
    \/ \E t \in Threads : BeginAddUser(t)
    \/ \E t \in Threads : BeginIncrementUsage(t)
    \/ \E t \in Threads : BeginCanDownload(t)
    \/ \E t \in Threads : ThreadStep(t)
    \/ Midnight

SpecUsage == Init /\ [][NextUsage]_vars

\* ------------------- SpecPremium: premium grants and the premium listings
\* Grants, tier changes and expiry checks, one at a time, with the clock
\* moving across midnight and past the two-minute expiry.
GetPremiumUsers ==
    /\ Do(Frame("get_premium_users", 0))
    /\ UNCHANGED <<now, threads, held>>

GetStats ==
    /\ Do(Frame("get_stats", 0))
    /\ UNCHANGED <<now, threads, held>>

NextPremium ==
    \/ AddUser
    \/ AddAdmin
    \/ SetUserType
    \/ SetPremium
    \/ GetUserType
    \/ GetPremiumUsers
    \/ GetStats
    \/ Tick

SpecPremium == Init /\ [][NextPremium]_vars

\* ------------- SpecFair: the quota calls under a fair scheduler
\* The calls that take the lock more than once (the expiry downgrade, the
\* daily reset, the deduction, the usage upsert) run on two threads with
\* the lock explicit.  Users are added, upgraded and granted a download
\* before midnight, and the quota calls, with the default count of 1, run
\* after it.  Outside the lock a thread runs up to its next
\* `with self.lock:` or its return in one step.  A thread that can run
\* outside the lock, or finish its critical section, eventually does (weak
\* fairness); a thread waiting for the lock gets it if the lock is free
\* again and again (strong fairness).
QuotaOps == {"increment_usage", "can_download", "get_ad_downloads"}

BeginQuotaCall(t) ==
    \E u \in UserIds, op \in QuotaOps :
        /\ now > StartTime
        /\ Begin(t, [Frame(op, u) EXCEPT !.count = 1])
        /\ UNCHANGED <<users, usage, admins, cache, now, ad_sessions,
                       ad_verifications, held>>

\* One download is granted to a user whose balance is zero.
BeginGrant(t) ==
    \E u \in UserIds :
        /\ now = StartTime
        /\ u \in DOMAIN users => users[u].ad_downloads = 0
        /\ Begin(t, [Frame("add_ad_downloads", u) EXCEPT !.count = 1])
        /\ UNCHANGED <<users, usage, admins, cache, now, ad_sessions,
                       ad_verifications, held>>

\* The call run from c up to its next locked statement or its end.
RECURSIVE RunToLock(_)
RunToLock(c) ==
    CHOOSE r \in {IF x.f.pc \in LockedLabels \cup {"done", "raised"} THEN x
                  ELSE RunToLock(Step(x)) : x \in {c}} : TRUE

\* The steps of thread t outside any `with self.lock:` block.
PlainRun(t) ==
    /\ threads[t].pc \notin LockedLabels \cup {"done"}
    /\ \E r \in {RunToLock(Config(threads[t]))} : Become(t, r)
    /\ UNCHANGED <<now, held>>

NextFair ==
    \/ \E t \in Threads : now = StartTime /\ BeginAddUser(t)
    \/ \E t \in Threads : now = StartTime /\ BeginSetUserType(t)
    \/ \E t \in Threads : BeginGrant(t)
    \/ \E t \in Threads : BeginQuotaCall(t)
    \/ \E t \in Threads : AcquireLock(t)
    \/ \E t \in Threads : CriticalSection(t)
    \/ \E t \in Threads : PlainRun(t)
    \/ Midnight

SpecFair ==
    /\ Init
    /\ [][NextFair]_vars
    /\ \A t \in Threads :
          /\ WF_vars(PlainRun(t))
          /\ WF_vars(CriticalSection(t))
          /\ SF_vars(AcquireLock(t))

\* ------------- SpecCode: threads create, read and delete verification codes
BeginCreateVerificationCode(t) ==
    \E code \in Codes, u \in UserIds :
        /\ Begin(t, SessionCall("create_verification_code", code, u))
        /\ UNCHANGED <<users, usage, admins, cache, now, ad_sessions,
                       ad_verifications, held>>

BeginGetVerificationCode(t) ==
    \E code \in Codes :
        /\ Begin(t, SessionCall("get_verification_code", code, 0))
        /\ UNCHANGED <<users, usage, admins, cache, now, ad_sessions,
                       ad_verifications, held>>

BeginDeleteVerificationCode(t) ==
    \E code \in Codes :
        /\ Begin(t, SessionCall("delete_verification_code", code, 0))
        /\ UNCHANGED <<users, usage, admins, cache, now, ad_sessions,
                       ad_verifications, held>>

NextCode ==
    \/ \E t \in Threads : BeginCreateVerificationCode(t)
    \/ \E t \in Threads : BeginGetVerificationCode(t)
    \/ \E t \in Threads : BeginDeleteVerificationCode(t)
    \/ \E t \in Threads : AcquireLock(t)
    \/ \E t \in Threads : CriticalSection(t)
    \/ \E t \in Threads : PlainStep(t)
    \/ SessTick

SpecCode == Init /\ [][NextCode]_vars

\* ================================================================== claims
\* The call with frame f run to completion from the current state, and a
\* call run after the call that ended in r.
RunOp(f) == Run(Config(f))
RunAfter(r, f) == Run([r EXCEPT !.f = f])

\* A stored row is an unexpired premium at time t.
ActivePaid(row, t) ==
    /\ row.user_type = "paid"
    /\ row.subscription_end # NoDate
    /\ ParseDateTime(row.subscription_end) > t

\* A stored row is a premium whose subscription_end has passed at time t.
ExpiredPaid(row, t) ==
    /\ row.user_type = "paid"
    /\ row.subscription_end # NoDate
    /\ ParseDateTime(row.subscription_end) <= t

IncrementUsageOf(u, n) == RunOp([Frame("increment_usage", u) EXCEPT !.count = n])
CanDownloadOf(u, n) == RunOp([Frame("can_download", u) EXCEPT !.count = n])

\* C1: under any interleaving of concurrent increment_usage calls, no
\* daily_usage row ever has files_downloaded greater than 1.
C1_DailyCounterAtMostOne == \A k \in DOMAIN usage : usage[k] <= 1

\* C2: for a user stored as paid with subscription_end in the future and a
\* premium_source other than 'ads', set_premium(user, expiry, 'ads') returns
\* False and leaves the stored tier, subscription_end and premium_source
\* unchanged, whatever calls came before.
C2_AdsGrantRefused ==
    \A u \in DOMAIN users, e \in ExpiryArgs :
        (ActivePaid(users[u], now) /\ users[u].premium_source # "ads") =>
            LET r == RunOp([Frame("set_premium", u) EXCEPT
                                !.expiry = e, !.source = "ads"]) IN
            /\ r.f.ret = FALSE
            /\ r.users[u] = users[u]

\* C3: for a non-admin user stored as paid with a subscription_end that has
\* passed, get_user_type returns 'free', the stored row afterwards is free
\* with subscription_end and premium_source cleared, and a get_user made
\* after get_user_type has returned reports user_type 'free'.
C3_LazyDowngradeVisible ==
    \A u \in DOMAIN users \ DOMAIN admins :
        ExpiredPaid(users[u], now) =>
            LET r == RunOp(Frame("get_user_type", u))
                g == RunAfter(r, Frame("get_user", u)) IN
            /\ r.f.ret = "free"
            /\ r.users[u].user_type = "free"
            /\ r.users[u].subscription_end = NoDate
            /\ r.users[u].premium_source = NULL
            /\ g.f.ret # None
            /\ g.f.ret[1].user_type = "free"

\* The reads that follow a tier mutation that ended in r: get_user returns
\* the stored tier, subscription_end and premium_source, and get_user_type
\* of a non-admin returns the tier that the stored record means.
ReadsSeeStored(r, u) ==
    LET g == RunAfter(r, Frame("get_user", u))
        t == RunAfter(g, Frame("get_user_type", u)) IN
    /\ g.f.ret # None
    /\ g.f.ret[1].user_type = r.users[u].user_type
    /\ g.f.ret[1].subscription_end = r.users[u].subscription_end
    /\ g.f.ret[1].premium_source = r.users[u].premium_source
    /\ u \notin DOMAIN r.admins =>
          t.f.ret = IF ActivePaid(r.users[u], r.now) THEN "paid" ELSE "free"

\* C4: with no concurrent operations, after set_user_type or set_premium
\* returns True the next get_user returns the newly stored tier,
\* subscription_end and premium_source and the next get_user_type the
\* matching tier, even when the record had been cached before.
C4_TierMutationVisible ==
    \A u \in UserIds :
        /\ \A ty \in TierArgs, d \in DaysArgs :
              LET r == RunOp([Frame("set_user_type", u) EXCEPT
                                  !.user_type = ty, !.days = d]) IN
              r.f.ret = TRUE => ReadsSeeStored(r, u)
        /\ \A e \in ExpiryArgs, s \in SourceArgs :
              LET r == RunOp([Frame("set_premium", u) EXCEPT
                                  !.expiry = e, !.source = s]) IN
              r.f.ret = TRUE => ReadsSeeStored(r, u)

\* C5: get_user_type(id) returns 'admin' for every id in the admins table,
\* whatever the stored tier, expiry or ban flag, and whether or not a users
\* row exists for the id.
C5_AdminAlwaysAdmin ==
    \A u \in DOMAIN admins : RunOp(Frame("get_user_type", u)).f.ret = "admin"

\* C6: when the cache holds no entry for u that differs from what is
\* stored, and u has a users row and is an admin or an unexpired premium,
\* can_download(u, count) returns (True, '') for every count >= 1, whatever
\* the ad balance and today's usage.
C6_AdminPaidAlwaysAllowed ==
    \A u \in DOMAIN users, n \in Counts :
        (Fresh(u) /\ (u \in DOMAIN admins \/ ActivePaid(users[u], now))) =>
            CanDownloadOf(u, n).f.ret = <<TRUE, AllowedMsg>>

\* C6 witness: a non-admin with an unexpired premium, no ad balance, the
\* day's download used and the record cached, is allowed two downloads.
C6_Witness ==
    \E u \in DOMAIN users \ DOMAIN admins :
        /\ ActivePaid(users[u], now)
        /\ Fresh(u)
        /\ CacheGet(cache, now, UserKey(u)) = Some(users[u])
        /\ users[u].ad_downloads = 0
        /\ UsageOf(usage, u, Date(now)) >= 1
        /\ CanDownloadOf(u, 2).f.ret = <<TRUE, AllowedMsg>>

\* C7: for a non-admin user without unexpired premium whose ad balance is b
\* with reset date today and b >= count >= 1, increment_usage(u, count)
\* returns True, the stored balance becomes b - count and the daily counters
\* are unchanged.
C7_AdBalanceChargedFirst ==
    \A u \in DOMAIN users \ DOMAIN admins, n \in Counts :
        ( /\ ~ActivePaid(users[u], now)
          /\ users[u].ad_downloads_reset_date = Date(now)
          /\ users[u].ad_downloads >= n ) =>
            LET r == IncrementUsageOf(u, n) IN
            /\ r.f.ret = TRUE
            /\ r.users[u].ad_downloads = users[u].ad_downloads - n
            /\ r.usage = usage

\* C8: for a non-admin user without unexpired premium, with ad balance 0
\* and d files downloaded today, can_download(u, count) returns (False,
\* daily limit) exactly when d + count > 1 and (True, '') otherwise; in the
\* rejecting case increment_usage returns False and changes neither the
\* daily counter nor the ad balance.
C8_DailyCap ==
    \A u \in DOMAIN users \ DOMAIN admins, n \in Counts :
        (~ActivePaid(users[u], now) /\ users[u].ad_downloads = 0) =>
            LET d == UsageOf(usage, u, Date(now))
                r == IncrementUsageOf(u, n) IN
            IF d + n > 1
            THEN /\ CanDownloadOf(u, n).f.ret = <<FALSE, DailyLimitMsg>>
                 /\ r.f.ret = FALSE
                 /\ r.usage = usage
                 /\ r.users[u].ad_downloads = 0
            ELSE CanDownloadOf(u, n).f.ret = <<TRUE, AllowedMsg>>

\* C9: under any interleaving of increment_usage and add_ad_downloads calls
\* the stored ad balance is never negative, and a charge whose deduction
\* finds balance < count at write time returns False at that step, with the
\* balance and the daily counters as they were.
C9_NoNegativeBalance ==
    /\ [](\A u \in DOMAIN users : users[u].ad_downloads >= 0)
    /\ [][\A t \in Threads :
            ( /\ threads[t].pc = "increment_usage_deduct"
              /\ threads'[t] # threads[t]
              /\ threads[t].u \in DOMAIN users
              /\ users[threads[t].u].ad_downloads < threads[t].count ) =>
                /\ threads'[t].pc = "done"
                /\ threads'[t].ret = FALSE
                /\ users' = users
                /\ usage' = usage]_vars

\* C9 witness: a charge that passed the check against the balance it read
\* and was refused at write time.
C9_Witness ==
    \E t \in Threads :
        /\ threads[t].op = "increment_usage"
        /\ threads[t].pc = "done"
        /\ threads[t].ad >= threads[t].count
        /\ threads[t].ret = FALSE

\* C10: for a non-admin user without unexpired premium whose ad balance b
\* (reset date today) satisfies 0 < b < count, can_download returns (False,
\* insufficient ad downloads), increment_usage returns False, and neither
\* the ad balance nor the daily counters change.
C10_InsufficientAdAllOrNothing ==
    \A u \in DOMAIN users \ DOMAIN admins, n \in Counts :
        ( /\ ~ActivePaid(users[u], now)
          /\ users[u].ad_downloads_reset_date = Date(now)
          /\ 0 < users[u].ad_downloads
          /\ users[u].ad_downloads < n ) =>
            LET r == IncrementUsageOf(u, n) IN
            /\ CanDownloadOf(u, n).f.ret = <<FALSE, InsufficientAdMsg>>
            /\ r.f.ret = FALSE
            /\ r.users[u].ad_downloads = users[u].ad_downloads
            /\ r.usage = usage

\* The age limit of the sweep, seen from the current state.
OldSessions == {k \in DOMAIN ad_sessions :
                   now - ParseDateTime(ad_sessions[k].created_at) > SessionMaxAge}
OldCodes == {k \in DOMAIN ad_verifications :
                now - ParseDateTime(ad_verifications[k].created_at) > SessionMaxAge}

\* C12: cleanup_expired_sessions removes exactly the ad sessions and
\* verification codes created more than 60 minutes before the call, keeps
\* every other row as it is, and returns the numbers of rows it removed from
\* each table.
C12_SweepExact ==
    LET r == RunOp(Frame("cleanup_expired_sessions", 0)) IN
    /\ r.ad_sessions = Restrict(ad_sessions, DOMAIN ad_sessions \ OldSessions)
    /\ r.ad_verifications =
          Restrict(ad_verifications, DOMAIN ad_verifications \ OldCodes)
    /\ r.f.ret.sessions =
          Cardinality(DOMAIN ad_sessions \ DOMAIN r.ad_sessions)
    /\ r.f.ret.verifications =
          Cardinality(DOMAIN ad_verifications \ DOMAIN r.ad_verifications)

\* C12 witness: one session is older than 60 minutes, another is exactly 60
\* minutes old, a code is older than 60 minutes; the sweep removes the first
\* and the code and keeps the second.
C12_Witness ==
    \E a, b \in DOMAIN ad_sessions :
        LET r == RunOp(Frame("cleanup_expired_sessions", 0)) IN
        /\ a \in OldSessions
        /\ now - ParseDateTime(ad_sessions[b].created_at) = SessionMaxAge
        /\ OldCodes # {}
        /\ DOMAIN r.ad_sessions = {b}
        /\ r.f.ret = [sessions |-> 1, verifications |-> 1]

\* C13: add_user for an id that already has a users row changes neither the
\* row's tier, subscription_end, premium_source, ban flag, ad balance, ad
\* reset date or rotation index nor any daily_usage counter, whatever
\* user_type is passed.
C13_AddUserKeepsExisting ==
    \A u \in DOMAIN users, ty \in TierArgs, raises \in BOOLEAN :
        LET r == RunOp([Frame("add_user", u) EXCEPT !.user_type = ty,
                                                    !.raises = raises]) IN
        /\ r.f.ret = TRUE
        /\ r.users = users
        /\ r.usage = usage

\* C13 witness: a paid user with an ad balance and a download counted today
\* is passed to add_user again as 'free', and the row stays paid.
C13_Witness ==
    \E u \in DOMAIN users :
        /\ users[u].user_type = "paid"
        /\ users[u].subscription_end # NoDate
        /\ users[u].ad_downloads > 0
        /\ UsageOf(usage, u, Date(now)) >= 1
        /\ RunOp([Frame("add_user", u) EXCEPT !.user_type = "free"]).users[u]
              = users[u]

\* The calls of Spec, with their arguments.
PublicCalls ==
    {Frame(op, u) : op \in {"get_user", "get_user_type", "is_admin",
                            "remove_admin", "get_ad_downloads"},
                    u \in UserIds}
    \cup {[Frame("add_user", u) EXCEPT !.user_type = ty] :
             u \in UserIds, ty \in TierArgs}
    \cup {[Frame("add_admin", u) EXCEPT !.by = Grantor] : u \in UserIds}
    \cup {[Frame("set_user_type", u) EXCEPT !.user_type = ty, !.days = d] :
             u \in UserIds, ty \in TierArgs, d \in DaysArgs}
    \cup {[Frame("set_premium", u) EXCEPT !.expiry = e, !.source = src] :
             u \in UserIds, e \in ExpiryArgs, src \in SourceArgs}
    \cup {[Frame(op, u) EXCEPT !.count = n] :
             op \in {"increment_usage", "can_download", "add_ad_downloads"},
             u \in UserIds, n \in Counts}

\* A call run with the cache disabled: nothing is ever found in it.
RECURSIVE RunNoCache(_)
RunNoCache(c) ==
    IF c.f.pc = "done" THEN c
    ELSE RunNoCache([Step([c EXCEPT !.cache = EmptyTable]) EXCEPT
                        !.cache = EmptyTable])

\* C14: every call returns the same value and leaves the same persisted
\* state with the cache as with the cache disabled.  Stated for one call from
\* every reachable state: up to the first call that differs, the two runs
\* of a sequence have returned the same values and hold the same tables.
C14_CacheIsTransparent ==
    \A f \in PublicCalls :
        LET a == RunOp(f)
            b == RunNoCache(Config(f)) IN
        /\ a.f.ret = b.f.ret
        /\ a.users = b.users
        /\ a.usage = b.usage
        /\ a.admins = b.admins

\* The read that follows the write that ended in r.
ReadAfter(r, op, u) == RunAfter(r, Frame(op, u)).f.ret

\* C15: with no concurrent operations, after ban_user / unban_user the next
\* is_banned returns the new flag, after add_admin / remove_admin the next
\* is_admin returns the new membership, and after add_ad_downloads or a
\* successful ad-balance charge the next get_ad_downloads returns the new
\* balance, even when the old value had been cached.
C15_WritesVisibleToReads ==
    \A u \in UserIds :
        /\ LET r == RunOp(Frame("ban_user", u)) IN
           ReadAfter(r, "is_banned", u) = (u \in DOMAIN users)
        /\ LET r == RunOp(Frame("unban_user", u)) IN
           ReadAfter(r, "is_banned", u) = FALSE
        /\ LET r == RunOp([Frame("add_admin", u) EXCEPT !.by = Grantor]) IN
           ReadAfter(r, "is_admin", u) = TRUE
        /\ LET r == RunOp(Frame("remove_admin", u)) IN
           ReadAfter(r, "is_admin", u) = FALSE
        /\ \A n \in Counts :
              LET r == RunOp([Frame("add_ad_downloads", u) EXCEPT !.count = n]) IN
              r.f.ret = TRUE =>
                  ReadAfter(r, "get_ad_downloads", u) = users[u].ad_downloads + n
        /\ \A n \in Counts :
              LET r == IncrementUsageOf(u, n) IN
              (r.f.ret = TRUE /\ r.users # users) =>
                  ReadAfter(r, "get_ad_downloads", u) = r.users[u].ad_downloads

\* The calls that trigger a backup, without the trigger's outcome.
BackupCalls ==
    {[Frame("add_user", u) EXCEPT !.user_type = ty] :
        u \in UserIds, ty \in TierArgs}
    \cup {[Frame("set_premium", u) EXCEPT !.expiry = e, !.source = src] :
             u \in UserIds, e \in ExpiryArgs, src \in SourceArgs}
    \cup {[Frame("set_user_session", u) EXCEPT !.session = ss] :
             u \in UserIds, ss \in SessionArgs}
    \cup {[Frame("add_ad_downloads", u) EXCEPT !.count = n] :
             u \in UserIds, n \in Counts}

\* C20: when the backup trigger raises, add_user, set_premium,
\* set_user_session and add_ad_downloads return what they return when it
\* succeeds, and leave the same committed tables.
C20_BackupFailureSwallowed ==
    \A f \in BackupCalls :
        LET ok == RunOp([f EXCEPT !.raises = FALSE])
            bad == RunOp([f EXCEPT !.raises = TRUE]) IN
        /\ bad.f.ret = ok.f.ret
        /\ bad.users = ok.users
        /\ bad.usage = ok.usage
        /\ bad.admins = ok.admins

\* C20 witness: a user with a session attached is granted premium while
\* the trigger raises; the grant returns True and is stored.
C20_Witness ==
    \E u \in DOMAIN users, e \in ExpiryArgs :
        LET r == RunOp([Frame("set_premium", u) EXCEPT
                            !.expiry = e, !.source = "referral",
                            !.raises = TRUE]) IN
        /\ users[u].session_string # NULL
        /\ users[u].user_type = "free"
        /\ r.f.ret = TRUE
        /\ r.users[u].user_type = "paid"
        /\ r.users[u].subscription_end = e

\* C19: a storage failure at any point inside a public operation makes it
\* return its safe default, and no fault escapes to the caller; in
\* particular for get_user_type, can_download, get_ad_downloads and
\* reset_ad_downloads_if_needed.
C19_NoFaultEscapes ==
    \A f \in PublicCalls \cup {Frame("reset_ad_downloads_if_needed", u) :
                                  u \in UserIds},
       k \in 0 .. MaxFaultAt :
        RunFault(Config(f), k).f.pc # "raised"

\* The stored tables.
Stored == <<users, usage, admins, ad_sessions, ad_verifications>>

\* C17: at most one thread is inside a write-lock critical section at any
\* instant; every INSERT, UPDATE and DELETE runs while its thread holds the
\* lock; and the lock is released on every exit path, the one where the
\* section raised included.
C17_WritesUnderLock ==
    /\ [](Cardinality(held) <= 1)
    /\ [](\A t \in held : threads[t].pc \in LockedLabels)
    /\ [][Stored' # Stored => \E t \in held : t \notin held']_vars
    /\ [][\A t \in held : threads'[t] # threads[t] => t \notin held']_vars

\* A thread is inside the critical section of the daily reset while the
\* other thread waits at a critical section of its own.
C17_Witness ==
    \E t \in held, s \in Threads \ held :
        /\ threads[t].pc = "reset_ad_downloads_update"
        /\ threads[s].pc \in LockedLabels

\* C18: get_user, is_admin, is_banned and can_download never acquire the
\* write lock.
C18_ReadsNeverLock == \A t \in held : threads[t].op \notin ReadOps

\* C16: with readers running concurrently with a mutation, once ban_user(u)
\* has returned, every get_user(u) and is_banned(u) that starts afterwards
\* reports the ban: a reader that fetched the row before the commit cannot
\* re-populate the cache with the pre-mutation value.  (No call of SpecLock
\* lifts a ban, and with every thread idle each ban_user has returned.)
C16_NoStaleRepopulation ==
    (\A t \in Threads : threads[t].pc = "done") =>
        \A u \in DOMAIN users :
            users[u].is_banned =>
                /\ RunOp(Frame("is_banned", u)).f.ret = TRUE
                /\ RunOp(Frame("get_user", u)).f.ret[1].is_banned

\* Thread t has finished a mark_ad_session_used(sid) that returned True.
Redeemed(t, sid) ==
    /\ threads[t].pc = "done"
    /\ threads[t].op = "mark_ad_session_used"
    /\ threads[t].sid = sid
    /\ threads[t].ret = TRUE

\* C11: for any ad session, across any sequence or interleaving of
\* mark_ad_session_used calls on it, at most one call returns True; every
\* call made once used is true returns False and changes nothing; and while
\* the row exists its used flag never goes from true back to false.
C11_SingleRedemption ==
    /\ [](\A sid \in SessionIds :
            Cardinality({t \in Threads : Redeemed(t, sid)}) <= 1)
    /\ [](\A sid \in DOMAIN ad_sessions :
            ad_sessions[sid].used =>
                LET r == RunOp(SessionCall("mark_ad_session_used", sid, 0)) IN
                /\ r.f.ret = FALSE
                /\ r.ad_sessions = ad_sessions
                /\ r.cache = cache)
    /\ [][\A t \in Threads, sid \in SessionIds :
            (threads[t].pc = "mark_ad_session_used" /\ Redeemed(t, sid)') =>
                /\ sid \in DOMAIN ad_sessions
                /\ ~ad_sessions[sid].used
                /\ ad_sessions'[sid].used]_vars
    /\ [][\A sid \in DOMAIN ad_sessions \cap DOMAIN ad_sessions' :
            ad_sessions[sid].used => ad_sessions'[sid].used]_vars

\* C11 witness: two threads marked the same session concurrently; one call
\* has returned True and the other, having waited for the lock, is inside
\* its update with the session already used.
C11_Witness ==
    \E t \in Threads, s \in held, sid \in DOMAIN ad_sessions :
        /\ Redeemed(t, sid)
        /\ threads[s].op = "mark_ad_session_used"
        /\ threads[s].sid = sid
        /\ ad_sessions[sid].used

\* C21: for an existing user, set_premium with a source other than 'ads', or
\* with any source when the stored row is no active premium (tier not paid,
\* no subscription_end, or subscription_end passed), returns True and the
\* stored row afterwards is paid with the supplied expiry and source.
C21_GrantOverwrites ==
    \A u \in DOMAIN users, e \in ExpiryArgs, s \in SourceArgs :
        (s # "ads" \/ ~ActivePaid(users[u], now)) =>
            LET r == RunOp([Frame("set_premium", u) EXCEPT
                                !.expiry = e, !.source = s]) IN
            /\ r.f.ret = TRUE
            /\ r.users[u].user_type = "paid"
            /\ r.users[u].subscription_end = e
            /\ r.users[u].premium_source = s

\* The effective tier of u is admin or paid: u is in the admins table, or
\* its stored row is an unexpired premium.
AdminOrPaid(u) ==
    \/ u \in DOMAIN admins
    \/ u \in DOMAIN users /\ ActivePaid(users[u], now)

\* C22: increment_usage(u, count) for a user whose effective tier is admin
\* or paid returns True and leaves u's ad balance and every daily_usage
\* counter unchanged.
C22_AdminPaidNotCharged ==
    \A u \in UserIds, n \in Counts :
        AdminOrPaid(u) =>
            LET r == IncrementUsageOf(u, n) IN
            /\ r.f.ret = TRUE
            /\ r.usage = usage
            /\ \A k \in DOMAIN users :
                  r.users[k].ad_downloads = users[k].ad_downloads

\* Thread t is inside rotate_user_shortener(u) and has not yet written.
Rotating(t, u) ==
    /\ threads[t].op = "rotate_user_shortener"
    /\ threads[t].u = u
    /\ threads[t].pc \notin {"done", "rotate_user_shortener_invalidate"}

\* C23: no rotation update is lost: after k rotate_user_shortener(u) calls
\* have all returned True, under any interleaving of those calls, the stored
\* index is (initial index + k) mod 4.  Here k = 2: both threads are inside
\* a rotation of u, neither has written, and both calls are run to their
\* return.
C23_NoLostRotation ==
    \A u \in DOMAIN users, t \in Threads, s \in Threads :
        (t # s /\ Rotating(t, u) /\ Rotating(s, u)) =>
            LET a == RunOp(threads[t])
                b == RunAfter(a, threads[s]) IN
            (a.f.ret = TRUE /\ b.f.ret = TRUE) =>
                b.users[u].shortener_index =
                    (users[u].shortener_index + 2) % 4

\* The calls that can change a field of the users row of u.
RowMutations(u) ==
    {[Frame("set_user_type", u) EXCEPT !.user_type = ty, !.days = d] :
        ty \in TierArgs, d \in DaysArgs}
    \cup {[Frame("set_premium", u) EXCEPT !.expiry = e, !.source = s] :
            e \in ExpiryArgs, s \in SourceArgs}
    \cup {[Frame("set_user_session", u) EXCEPT !.session = ss] :
            ss \in SessionArgs}
    \cup {[Frame("set_custom_thumbnail", u) EXCEPT !.file_id = fid] :
            fid \in FileIds}
    \cup {[Frame(op, u) EXCEPT !.count = n] :
            op \in {"add_ad_downloads", "increment_usage"}, n \in Counts}
    \cup {Frame(op, u) :
            op \in {"get_user_type", "delete_custom_thumbnail",
                    "reset_ad_downloads_if_needed", "rotate_user_shortener",
                    "ban_user", "unban_user"}}

\* C24: with no concurrent operations, every operation that changes a field
\* of a users row has deleted the user-record cache entry of that id when it
\* returns (the cache holds no entry for the id, or one read after the
\* change), and the next get_user, get_custom_thumbnail, get_user_session
\* and get_user_shortener_index return the stored values.
C24_RowMutationsInvalidate ==
    \A u \in DOMAIN users :
        \A f \in RowMutations(u) :
            LET r == RunOp(f) IN
            r.users[u] # users[u] =>
                /\ CacheGet(r.cache, r.now, UserKey(u)) \in
                      {None, Some(r.users[u])}
                /\ RunAfter(r, Frame("get_user", u)).f.ret = Some(r.users[u])
                /\ RunAfter(r, Frame("get_custom_thumbnail", u)).f.ret =
                      r.users[u].custom_thumbnail
                /\ RunAfter(r, Frame("get_user_session", u)).f.ret =
                      r.users[u].session_string
                /\ RunAfter(r, Frame("get_user_shortener_index", u)).f.idx =
                      r.users[u].shortener_index

\* The labels at which a call takes the ad balance from the record that
\* get_user returned.
BalanceLabels ==
    {"can_download_user", "increment_usage_user", "get_ad_downloads_user"}

\* At c the call is not about to use the balance of a non-admin,
\* non-paid user, or the stored reset date and that of the record used are
\* both today.
BalanceOfToday(c) ==
    ( /\ c.f.pc \in BalanceLabels
      /\ c.f.user # None
      /\ c.f.u \in DOMAIN c.users \ DOMAIN c.admins
      /\ ~ActivePaid(c.users[c.f.u], c.now) ) =>
        /\ c.users[c.f.u].ad_downloads_reset_date = Date(c.now)
        /\ c.f.user[1].ad_downloads_reset_date = Date(c.now)

\* BalanceOfToday at c and at every label the thread goes through before
\* its next step that other threads can see.
RECURSIVE AlongLocal(_)
AlongLocal(c) ==
    /\ BalanceOfToday(c)
    /\ c.f.pc \in LocalLabels => AlongLocal(Step(c))

\* C25: whenever can_download, increment_usage or get_ad_downloads uses a
\* non-admin, non-paid user's ad balance to decide or report, the stored ad
\* reset date already equals today, and so does the reset date of the record
\* the balance is taken from: a balance left over from an earlier calendar
\* day is never used.
C25_BalanceResetBeforeUse ==
    \A t \in Threads :
        threads[t].pc # "done" => AlongLocal(Step(Config(threads[t])))

\* C26: with cache entries expiring 180 s (user record) or 300 s (ban flag)
\* after insertion, is_banned(u) never returns the pre-ban value later than
\* 300 seconds after the ban_user(u) commit, under any interleaving of
\* readers with the ban: the flag that is_banned caches is not derived from
\* a user record that is itself stale.  (Every ban of SpecStale is committed
\* at StartTime.)
C26_BanSeenWithinTTL ==
    \A u \in DOMAIN users :
        (users[u].is_banned /\ now > StartTime + BANNED_TTL) =>
            RunOp(Frame("is_banned", u)).f.ret = TRUE

\* C27: in every reachable state, under any interleaving of add_user,
\* set_user_type, set_premium and get_user_type (lazy downgrade), every
\* users row with a non-null subscription_end or a non-null premium_source
\* has tier paid.
C27_ExpiryOnlyWhenPaid ==
    \A u \in DOMAIN users :
        (users[u].subscription_end # NoDate \/ users[u].premium_source # NULL)
            => users[u].user_type = "paid"

\* C27 witness: a thread is about to downgrade a premium that has expired
\* while another is about to write a grant to the same row.
C27_Witness ==
    \E t \in Threads, s \in Threads, u \in DOMAIN users :
        /\ ExpiredPaid(users[u], now)
        /\ threads[t].pc = "get_user_type_downgrade" /\ threads[t].u = u
        /\ threads[s].pc = "set_premium_update" /\ threads[s].u = u

\* C28: add_admin(id, by) returns True and leaves exactly one admins entry
\* for id, whose added_by is the grantor of the latest call, however many
\* times it is called; remove_admin(id) returns True exactly when an entry
\* for id existed at the time of the call, so a second consecutive
\* remove_admin(id) returns False.
C28_AdminAddRemove ==
    \A u \in UserIds :
        /\ \A by \in Grantors, again \in Grantors :
              LET a == RunOp([Frame("add_admin", u) EXCEPT !.by = by])
                  b == RunAfter(a, [Frame("add_admin", u) EXCEPT !.by = again])
              IN
              /\ a.f.ret = TRUE /\ b.f.ret = TRUE
              /\ DOMAIN a.admins = DOMAIN admins \cup {u}
              /\ a.admins[u] = by
              /\ DOMAIN b.admins = DOMAIN admins \cup {u}
              /\ b.admins[u] = again
        /\ LET r == RunOp(Frame("remove_admin", u))
               q == RunAfter(r, Frame("remove_admin", u)) IN
           /\ r.f.ret = (u \in DOMAIN admins)
           /\ u \notin DOMAIN r.admins
           /\ q.f.ret = FALSE

\* C28 witness: an id is an admin by one grantor; add_admin by the other
\* replaces the entry, and of two removals the first returns True.
C28_Witness ==
    \E u \in DOMAIN admins :
        /\ admins[u] = Grantor
        /\ RunOp([Frame("add_admin", u) EXCEPT !.by = Grantor - 1]).admins[u]
              = Grantor - 1
        /\ RunOp(Frame("remove_admin", u)).f.ret = TRUE

\* The users who own an ad session older than 60 minutes.
SweptOwners == {ad_sessions[k].user_id : k \in OldSessions}

\* C29: when cleanup_expired_sessions returns without concurrent readers,
\* the cache holds no user-record entry for any user who owned an ad session
\* removed by that sweep, and the sweep deletes no other cache entry: none
\* on account of removed verification codes.
C29_SweepInvalidatesOwners ==
    LET r == RunOp(Frame("cleanup_expired_sessions", 0)) IN
    /\ \A u \in SweptOwners : UserKey(u) \notin DOMAIN r.cache
    /\ r.cache = Restrict(cache, DOMAIN cache \ {UserKey(u) : u \in SweptOwners})

\* C29 witness: the record of a user is cached, the user owns a session
\* older than 60 minutes, and the sweep removes the cache entry.
C29_Witness ==
    \E u \in SweptOwners :
        /\ CacheGet(cache, now, UserKey(u)) # None
        /\ UserKey(u) \notin
              DOMAIN RunOp(Frame("cleanup_expired_sessions", 0)).cache

\* C30: in every reachable state there is at most one daily_usage row per
\* (user id, date) -- the table is keyed by the pair -- and from one state to
\* the next every row stays and its files_downloaded counter never
\* decreases, under any interleaving of operations.
C30_UsageNeverDecreases ==
    [][\A k \in DOMAIN usage :
          /\ k \in DOMAIN usage'
          /\ usage'[k] >= usage[k]]_vars

\* C30 witness: a download was counted on day 0 and, on day 1, a thread is
\* about to count one in the row of day 1.
C30_Witness ==
    \E t \in Threads, k \in DOMAIN usage :
        /\ usage[k] >= 1
        /\ k[2] < Date(now)
        /\ threads[t].pc = "increment_usage_upsert"
        /\ threads[t].u = k[1]
        /\ threads[t].date = Date(now)

\* C31: create_ad_session with a session id that already exists, and
\* create_verification_code with a code that already exists, return False
\* and leave the existing row unchanged (owner, created_at, and for a
\* session its used flag): re-creating a used session id cannot make it
\* unused.
C31_DuplicateCreateRefused ==
    /\ \A sid \in DOMAIN ad_sessions, u \in UserIds :
          LET r == RunOp(SessionCall("create_ad_session", sid, u)) IN
          /\ r.f.ret = FALSE
          /\ r.ad_sessions = ad_sessions
    /\ \A code \in DOMAIN ad_verifications, u \in UserIds :
          LET r == RunOp(SessionCall("create_verification_code", code, u)) IN
          /\ r.f.ret = FALSE
          /\ r.ad_verifications = ad_verifications

\* C31 witness: a used session and a code, both created half an hour ago
\* or earlier, are created again; the calls return False and the session is
\* still used.
C31_Witness ==
    \E sid \in DOMAIN ad_sessions, code \in DOMAIN ad_verifications :
        LET r == RunOp(SessionCall("create_ad_session", sid, 1)) IN
        /\ ad_sessions[sid].used
        /\ ParseDateTime(ad_sessions[sid].created_at) < now
        /\ ParseDateTime(ad_verifications[code].created_at) < now
        /\ r.f.ret = FALSE
        /\ r.ad_sessions[sid].used
        /\ RunOp(SessionCall("create_verification_code", code, 1)).f.ret = FALSE

\* C32: the backup trigger is invoked exactly once by each add_user that
\* creates a new row, by each set_premium and add_ad_downloads that updated
\* a row, and by each set_user_session that attaches a non-empty session to
\* a user who had none; it is not invoked by add_user on an existing user,
\* by a mutation that matched no row or failed (a storage failure at any of
\* its steps), or by a session replace or clear.
C32_BackupTriggeredOncePerChange ==
    \A f \in BackupCalls, raises \in BOOLEAN, k \in -1 .. MaxFaultAt :
        LET r == RunFault(Config([f EXCEPT !.raises = raises]), k)
            u == f.u
            had == u \in DOMAIN users
            due ==
                CASE f.op = "add_user" -> ~had /\ u \in DOMAIN r.users
                  [] f.op = "set_user_session" ->
                        /\ had
                        /\ r.f.ret = TRUE
                        /\ f.session # NULL
                        /\ users[u].session_string = NULL
                  [] OTHER -> had /\ r.f.ret = TRUE IN
        r.f.backups = IF due THEN 1 ELSE 0

\* C32 witness: a user without a session gets one attached, and the
\* trigger is called once; the session is then replaced and then cleared,
\* and the trigger is not called.
C32_Witness ==
    \E u \in DOMAIN users :
        LET a == RunOp([Frame("set_user_session", u) EXCEPT !.session = "session"])
            b == RunAfter(a, [Frame("set_user_session", u) EXCEPT !.session = "session"])
            d == RunAfter(b, [Frame("set_user_session", u) EXCEPT !.session = NULL])
            e == RunOp([Frame("add_user", u) EXCEPT !.user_type = "paid"]) IN
        /\ users[u].session_string = NULL
        /\ a.f.ret = TRUE /\ a.f.backups = 1
        /\ b.f.ret = TRUE /\ b.f.backups = 0
        /\ d.f.ret = TRUE /\ d.f.backups = 0
        /\ d.users[u].session_string = NULL
        /\ e.f.ret = TRUE /\ e.f.backups = 0

\* C33: get_premium_users returns exactly the users whose premium is
\* unexpired by the criterion of get_user_type (tier paid and
\* subscription_end later than now), latest expiry first, and paid_users of
\* get_stats is the length of that list; a user whose subscription_end
\* passed earlier today is in neither.
C33_PremiumListIsUnexpired ==
    LET list == RunOp(Frame("get_premium_users", 0)).f.ret
        stats == RunOp(Frame("get_stats", 0)).f.ret IN
    /\ {list[i].user_id : i \in 1 .. Len(list)} =
          {u \in DOMAIN users : ActivePaid(users[u], now)}
    /\ \A i, j \in 1 .. Len(list) :
          i < j => ParseDateTime(list[i].premium_expiry) >=
                   ParseDateTime(list[j].premium_expiry)
    /\ stats.paid_users = Len(list)

\* C34: charging an admin or active-paid user with increment_usage(u,
\* count) advances the rotation index: after the call returns True, the
\* stored rotation index is its value before the call plus count, modulo 4.
C34_ChargeAdvancesRotation ==
    \A u \in DOMAIN users, n \in Counts :
        AdminOrPaid(u) =>
            LET r == IncrementUsageOf(u, n) IN
            r.f.ret = TRUE =>
                r.users[u].shortener_index = (users[u].shortener_index + n) % 4

\* C35: get_user_type never downgrades a user whose stored subscription_end
\* is in the future: the downgrade write takes effect only when the stored
\* record, not merely a cached copy of it, is expired.
C35_DowngradeOnlyWhenStoredExpired ==
    \A u \in DOMAIN users :
        ActivePaid(users[u], now) =>
            LET r == RunOp(Frame("get_user_type", u)) IN
            /\ r.users[u].user_type = "paid"
            /\ r.users[u].subscription_end = users[u].subscription_end
            /\ r.users[u].premium_source = users[u].premium_source

\* C36: after add_ad_downloads(u, n) returns True, get_ad_downloads(u) on
\* the same day returns at least n minus the downloads charged since; here
\* nothing is charged in between, and the grant may be the first operation
\* touching u that day (the stored reset date is an earlier day).
C36_GrantSurvivesTheDay ==
    \A u \in UserIds, n \in Counts :
        LET r == RunOp([Frame("add_ad_downloads", u) EXCEPT !.count = n]) IN
        r.f.ret = TRUE => ReadAfter(r, "get_ad_downloads", u) >= n

\* Thread t takes the step that runs the daily reset's UPDATE.
ResetWrites(t) ==
    /\ threads[t].pc = "reset_ad_downloads_update"
    /\ threads'[t] # threads[t]

\* C37: under concurrent calls the daily reset zeroes a user's balance at
\* most once per calendar day: a reset that saw the old date does not write
\* once another call has stored today's date, so what was granted after
\* today's reset is not wiped by a racing reset.
C37_ResetOncePerDay ==
    [][\A t \in Threads :
          ResetWrites(t) =>
              LET u == threads[t].u IN
              u \in DOMAIN users =>
                  /\ users[u].ad_downloads_reset_date # Date(now)
                  /\ users'[u].ad_downloads_reset_date = Date(now)]_vars

\* C38: no operation tries to acquire the lock while it holds it, and every
\* acquisition is followed by a release; hence under fair scheduling every
\* public operation eventually returns, increment_usage, can_download and
\* get_ad_downloads included.
C38_EveryCallReturns ==
    /\ [][\A t \in Threads : t \in held' \ held => held = {}]_vars
    /\ \A t \in Threads : (t \in held) ~> (t \notin held)
    /\ \A t \in Threads : (threads[t].pc # "done") ~> (threads[t].pc = "done")

\* C38 witness: a thread is inside the deduction of increment_usage,
\* holding the lock, while the other waits at a locked statement.
C38_Witness ==
    \E t \in Threads, s \in Threads :
        /\ t # s
        /\ held = {t}
        /\ threads[t].op = "increment_usage"
        /\ threads[t].pc = "increment_usage_deduct"
        /\ threads[s].pc \in LockedLabels

\* C39: when no other operation intervenes and the day does not change,
\* increment_usage(u, count) returns True exactly when the can_download(u,
\* count) that immediately preceded it returned allowed.
C39_ChargeAgreesWithCheck ==
    \A u \in UserIds, n \in Counts :
        LET a == CanDownloadOf(u, n)
            b == RunAfter(a, [Frame("increment_usage", u) EXCEPT !.count = n]) IN
        (b.f.ret = TRUE) <=> (a.f.ret[1] = TRUE)

\* Thread t has read the verification code as a row and has not yet gone
\* on to delete it.
HasReadCode(t, code) ==
    /\ threads[t].op = "get_verification_code"
    /\ threads[t].pc = "done"
    /\ threads[t].sid = code
    /\ threads[t].ret # None

\* C40: when two callers concurrently each run get_verification_code(c)
\* and then delete_verification_code(c), at most one of them obtains both a
\* non-empty read and a delete that reports success.  Here both callers
\* have read the row, and their deletes run one after the other.
C40_CodeRedeemedOnce ==
    \A code \in Codes, t \in Threads, s \in Threads :
        (t # s /\ HasReadCode(t, code) /\ HasReadCode(s, code)) =>
            LET a == RunOp(SessionCall("delete_verification_code", code, 0))
                b == RunAfter(a, SessionCall("delete_verification_code", code, 0)) IN
            ~(a.f.ret = TRUE /\ b.f.ret = TRUE)

====
